---- MODULE Spec2Model ----
(***************************************************************************)
(* Model of the consensus support layer in contracts/utils.go:             *)
(*   - CreateTransactionSign   (sign / secret / opening submission)         *)
(*   - GetRewardForCheckpoint  (signer tally of a checkpoint window)        *)
(*   - CalculateRewardForSigner                                             *)
(*   - GetRewardBalancesRate   (owner / voters / foundation split)          *)
(***************************************************************************)
EXTENDS Integers, Sequences, FiniteSets, TLC

(***************************************************************************)
(* Bounds of the model.                                                    *)
(***************************************************************************)
\* highest block number handed to CreateTransactionSign
MaxBlock == 5
\* highest account nonce the pool state reports
MaxNonce == 1
\* sign transactions contained in the blocks of the walked chain
MaxTxs == 2
\* highest sign count of an arbitrary signer map handed to CalculateRewardForSigner
MaxSign == 3
\* length of the voter list of a masternode
MaxVoters == 3

(***************************************************************************)
(* CreateTransactionSign: state.                                           *)
(***************************************************************************)
\* concurrent block-processing paths calling CreateTransactionSign
Callers == {1, 2}
\* values RandStringByte can return
Keys == {"k1", "k2"}
NoKey == "none"
\* errors of pool.AddLocal, wallet.SignTx, chainDb.Get
PoolErrs == {"errNonce", "errPool"}
SignErr == "errSign"
DbErr == "errDb"

\* chainConfig.S2PoS.Epoch and common.EpocBlockSecret / EpocBlockOpening /
\* EpocBlockRandomize, scaled down; the second has EpocBlockRandomize = Epoch
EpochConfigs ==
  { [Epoch |-> 4, Secret |-> 1, Opening |-> 2, Randomize |-> 3],
    [Epoch |-> 4, Secret |-> 2, Opening |-> 3, Randomize |-> 4] }

VARIABLES
  TxSignMu,   \* set of callers holding the lock
  call,       \* per caller: position and locals of its running invocation
  pool,       \* transactions accepted by pool.AddLocal, in order
  poolNonce,  \* pool.State().GetNonce(account.Address)
  dbKey,      \* chainDb entry "randomizeKey" (NoKey when absent)
  ncalls,     \* invocations the callers may still start
  cfg,        \* epoch configuration
  keyLog,     \* the Put, Get and Delete done on the key entry, with the call's block
  rwCfg,      \* checkpoint header, rCheckpoint, masternodes, chain configuration
  chainTx,    \* block number -> sign transactions the ancestor block contains
  rwPc,       \* "build", "tallied", "rewarded", "panicked", "failed"
  walk,       \* headers GetRewardForCheckpoint asked for, and the one not found
  signers,    \* map address -> rewardLog
  totalSigner,    \* the counter behind *totalSigner
  calc,       \* what CalculateRewardForSigner returned
  balIn,      \* arguments and state read by GetRewardBalancesRate
  balOut,     \* what GetRewardBalancesRate returned
  balPc,      \* "in", "out"
  rng,        \* state of the package-level source of math/rand
  m2,         \* the running invocation of GenM2FromRandomize
  m2Out,      \* per invocation: its arguments and what it returned
  codec       \* one run of a builder and of the reader of what it built

txVars == <<TxSignMu, call, pool, poolNonce, dbKey, ncalls, cfg, keyLog>>

rwVars == <<rwCfg, chainTx, rwPc, walk, signers, totalSigner, calc>>

balVars == <<balIn, balOut, balPc>>

m2Vars == <<rng, m2, m2Out>>

codecVars == <<codec>>

\* what the steps of one component leave alone
notTx == <<rwVars, balVars, m2Vars, codecVars>>
notRw == <<txVars, balVars, m2Vars, codecVars>>
notBal == <<txVars, rwVars, m2Vars, codecVars>>
notM2 == <<txVars, rwVars, balVars, codecVars>>
notCodec == <<txVars, rwVars, balVars, m2Vars>>

vars == <<TxSignMu, call, pool, poolNonce, dbKey, ncalls, cfg, keyLog,
          rwCfg, chainTx, rwPc, walk, signers, totalSigner, calc,
          balIn, balOut, balPc, rng, m2, m2Out, codec>>

\* the retry bound of the sign loop
RetryLimit == 10

IdleCall ==
  [ pc |-> "idle", blk |-> 0, wallet |-> FALSE, nonce |-> 0, retryCount |-> 0,
    exist |-> FALSE, key |-> NoKey, ret |-> "none",
    signAdds |-> 0, signFails |-> 0, lastErr |-> "none",
    secretBuilt |-> FALSE, secretSub |-> FALSE,
    openBuilt |-> FALSE, openSub |-> FALSE, keyOps |-> {},
    sameBlk |-> FALSE, lastRead |-> 0 ]

Set(p, r) == call' = [call EXCEPT ![p] = r]

\* return path: the value is fixed, the deferred Unlock is still to run
Ret(r, v) == [r EXCEPT !.pc = "ret", !.ret = v]

TxInit ==
  /\ TxSignMu = {}
  /\ call = [p \in Callers |-> IdleCall]
  /\ pool = <<>>
  /\ poolNonce = 0
  /\ dbKey \in {NoKey, "k1"}
  /\ ncalls = Cardinality(Callers)
  /\ cfg \in EpochConfigs
  /\ keyLog = <<>>

\* the invocations for block b that are running when p enters for block b
Concurrent(p, b) ==
  { q \in Callers \ {p} : call[q].pc # "idle" /\ call[q].blk = b }

\* a block-processing path enters CreateTransactionSign for block b
Invoke(p, b) ==
  /\ call[p].pc = "idle"
  /\ ncalls > 0
  /\ ncalls' = ncalls - 1
  /\ call' = [q \in Callers |->
                IF q = p
                  THEN [IdleCall EXCEPT !.pc = "lock", !.blk = b,
                                        !.sameBlk = Concurrent(p, b) # {}]
                  ELSE IF q \in Concurrent(p, b)
                         THEN [call[q] EXCEPT !.sameBlk = TRUE]
                         ELSE call[q]]
  /\ UNCHANGED <<TxSignMu, pool, poolNonce, dbKey, cfg, keyLog, notTx>>

\* a caller holding only a read lock would not exclude the others
CanLockShared(p) == TRUE

\* TxSignMu.Lock() blocks while any caller holds the lock
CanLock(p) == TxSignMu = {}

Lock(p) ==
  /\ call[p].pc = "lock"
  /\ CanLock(p)
  /\ TxSignMu' = TxSignMu \cup {p}
  /\ Set(p, [call[p] EXCEPT !.pc = "config"])
  /\ UNCHANGED <<pool, poolNonce, dbKey, ncalls, cfg, keyLog, notTx>>

\* if chainConfig.S2PoS != nil { ... } return nil
ConfigCheck(p) ==
  /\ call[p].pc = "config"
  /\ \E s2pos \in BOOLEAN :
       Set(p, IF s2pos THEN [call[p] EXCEPT !.pc = "account"]
                       ELSE Ret(call[p], "nil"))
  /\ UNCHANGED <<TxSignMu, pool, poolNonce, dbKey, ncalls, cfg, keyLog, notTx>>

\* find the active account: wallet stays nil when manager.Wallets() is empty
FindAccount(p) ==
  /\ call[p].pc = "account"
  /\ \E w \in BOOLEAN : Set(p, [call[p] EXCEPT !.pc = "nonce", !.wallet = w])
  /\ UNCHANGED <<TxSignMu, pool, poolNonce, dbKey, ncalls, cfg, keyLog, notTx>>

\* nonce := pool.State().GetNonce(account.Address); retryCount := 1
ReadNonce(p) ==
  /\ call[p].pc = "nonce"
  /\ Set(p, [call[p] EXCEPT !.pc = "sign", !.nonce = poolNonce, !.retryCount = 1,
                            !.lastRead = poolNonce])
  /\ UNCHANGED <<TxSignMu, pool, poolNonce, dbKey, ncalls, cfg, keyLog, notTx>>

\* CreateTxSign and wallet.SignTx; a nil wallet panics (the deferred Unlock runs)
SignTxSign(p) ==
  /\ call[p].pc = "sign"
  /\ \/ /\ ~call[p].wallet
        /\ Set(p, Ret(call[p], "panic"))
     \/ /\ call[p].wallet
        /\ Set(p, Ret(call[p], SignErr))
     \/ /\ call[p].wallet
        /\ Set(p, [call[p] EXCEPT !.pc = "add"])
  /\ UNCHANGED <<TxSignMu, pool, poolNonce, dbKey, ncalls, cfg, keyLog, notTx>>

SignTx(b, n) == [kind |-> "sign", blk |-> b, nonce |-> n, key |-> NoKey]

\* an off-by-one retry test
RetryExhaustedLate(retryCount) == retryCount > RetryLimit

\* if retryCount >= 10 { return err }
RetryExhausted(retryCount) == retryCount >= RetryLimit

\* a retry that builds the next transaction with the nonce it already had
RetryNonceStale(nonce, newNonce) == nonce

\* newNonce := pool.State().GetNonce(account.Address); nonce = newNonce
RetryNonce(nonce, newNonce) == newNonce

\* pool.AddLocal(txSigned) of the sign transaction, and the retry decision
AddLocalSign(p) ==
  /\ call[p].pc = "add"
  /\ \/ /\ pool' = Append(pool, SignTx(call[p].blk, call[p].nonce))
        /\ Set(p, [call[p] EXCEPT !.pc = "haskey", !.signAdds = @ + 1,
                                  !.lastErr = "none", !.retryCount = 0])
     \/ /\ \E e \in PoolErrs :
             LET r == [call[p] EXCEPT !.signAdds = @ + 1, !.signFails = @ + 1,
                                      !.lastErr = e, !.lastRead = poolNonce]
             IN Set(p, IF RetryExhausted(r.retryCount)
                         THEN Ret(r, e)
                         ELSE [r EXCEPT !.pc = "sign",
                                        !.nonce = RetryNonce(r.nonce, r.lastRead),
                                        !.retryCount = @ + 1])
        /\ UNCHANGED pool
  /\ UNCHANGED <<TxSignMu, poolNonce, dbKey, ncalls, cfg, keyLog, notTx>>

\* checkNumber := blockNumber % chainConfig.S2PoS.Epoch
checkNumber(p) == call[p].blk % cfg.Epoch

\* a commit test that does not look whether a key is stored
SecretCondAnyKey(p) ==
  /\ checkNumber(p) > 0
  /\ cfg.Secret <= checkNumber(p)
  /\ cfg.Opening > checkNumber(p)

\* if !exist && checkNumber > 0 && EpocBlockSecret <= checkNumber && EpocBlockOpening > checkNumber
SecretCond(p) ==
  /\ ~call[p].exist
  /\ checkNumber(p) > 0
  /\ cfg.Secret <= checkNumber(p)
  /\ cfg.Opening > checkNumber(p)

\* a reveal test that asks the store again and copies the commit threshold
OpeningCondFresh(p) ==
  /\ dbKey # NoKey
  /\ checkNumber(p) > 0
  /\ cfg.Secret <= checkNumber(p)
  /\ cfg.Randomize >= checkNumber(p)

\* a reveal window that opens one block early
OpeningCondEarly(p) ==
  /\ call[p].exist
  /\ checkNumber(p) > 0
  /\ cfg.Opening <= checkNumber(p) + 1
  /\ cfg.Randomize >= checkNumber(p)

\* if exist && checkNumber > 0 && EpocBlockOpening <= checkNumber && EpocBlockRandomize >= checkNumber
OpeningCond(p) ==
  /\ call[p].exist
  /\ checkNumber(p) > 0
  /\ cfg.Opening <= checkNumber(p)
  /\ cfg.Randomize >= checkNumber(p)

\* exist, _ := chainDb.Has(randomizeKeyName)
HasKey(p) ==
  /\ call[p].pc = "haskey"
  /\ Set(p, [call[p] EXCEPT !.pc = "secretCheck", !.exist = (dbKey # NoKey),
                            !.keyOps = @ \cup {"has"}])
  /\ UNCHANGED <<TxSignMu, pool, poolNonce, dbKey, ncalls, cfg, keyLog, notTx>>

SecretCheck(p) ==
  /\ call[p].pc = "secretCheck"
  /\ Set(p, [call[p] EXCEPT !.pc = IF SecretCond(p) THEN "secretSign" ELSE "openCheck"])
  /\ UNCHANGED <<TxSignMu, pool, poolNonce, dbKey, ncalls, cfg, keyLog, notTx>>

\* RandStringByte, nonce read, BuildTxSecretRandomize, wallet.SignTx
SecretBuildSign(p) ==
  /\ call[p].pc = "secretSign"
  /\ \E k \in Keys :
       LET r == [call[p] EXCEPT !.key = k, !.nonce = poolNonce, !.secretBuilt = TRUE,
                                !.lastRead = poolNonce]
       IN \/ Set(p, Ret(r, SignErr))
          \/ Set(p, [r EXCEPT !.pc = "secretAdd"])
  /\ UNCHANGED <<TxSignMu, pool, poolNonce, dbKey, ncalls, cfg, keyLog, notTx>>

SecretTx(b, n, k) == [kind |-> "secret", blk |-> b, nonce |-> n, key |-> k]

\* a secret submission whose error is not looked at: the key is stored anyway
SecretAddLocalUnchecked(p) ==
  /\ call[p].pc = "secretAdd"
  /\ \/ /\ pool' = Append(pool, SecretTx(call[p].blk, call[p].nonce, call[p].key))
        /\ Set(p, [call[p] EXCEPT !.pc = "secretPut", !.secretSub = TRUE])
     \/ /\ Set(p, [call[p] EXCEPT !.pc = "secretPut"])
        /\ UNCHANGED pool
  /\ UNCHANGED <<TxSignMu, poolNonce, dbKey, ncalls, cfg, keyLog, notTx>>

\* pool.AddLocal(txSigned) of the secret transaction
SecretAddLocal(p) ==
  /\ call[p].pc = "secretAdd"
  /\ \/ /\ pool' = Append(pool, SecretTx(call[p].blk, call[p].nonce, call[p].key))
        /\ Set(p, [call[p] EXCEPT !.pc = "secretPut", !.secretSub = TRUE])
     \/ /\ \E e \in PoolErrs : Set(p, Ret(call[p], e))
        /\ UNCHANGED pool
  /\ UNCHANGED <<TxSignMu, poolNonce, dbKey, ncalls, cfg, keyLog, notTx>>

\* chainDb.Put(randomizeKeyName, randomizeKeyValue)
SecretPut(p) ==
  /\ call[p].pc = "secretPut"
  /\ dbKey' = call[p].key
  /\ keyLog' = Append(keyLog, [op |-> "put", blk |-> call[p].blk])
  /\ Set(p, [call[p] EXCEPT !.pc = "openCheck", !.keyOps = @ \cup {"put"}])
  /\ UNCHANGED <<TxSignMu, pool, poolNonce, ncalls, cfg, notTx>>

OpenCheck(p) ==
  /\ call[p].pc = "openCheck"
  /\ Set(p, IF OpeningCond(p) THEN [call[p] EXCEPT !.pc = "openGet"]
                              ELSE Ret(call[p], "nil"))
  /\ UNCHANGED <<TxSignMu, pool, poolNonce, dbKey, ncalls, cfg, keyLog, notTx>>

\* randomizeKeyValue, err := chainDb.Get(randomizeKeyName)
OpeningGet(p) ==
  /\ call[p].pc = "openGet"
  /\ LET r == [call[p] EXCEPT !.keyOps = @ \cup {"get"}]
     IN \/ /\ Set(p, Ret(r, DbErr))
           /\ UNCHANGED keyLog
        \/ /\ dbKey # NoKey
           /\ Set(p, [r EXCEPT !.pc = "openSign", !.key = dbKey])
           /\ keyLog' = Append(keyLog, [op |-> "get", blk |-> call[p].blk])
  /\ UNCHANGED <<TxSignMu, pool, poolNonce, dbKey, ncalls, cfg, notTx>>

\* nonce read, BuildTxOpeningRandomize, wallet.SignTx
OpeningBuildSign(p) ==
  /\ call[p].pc = "openSign"
  /\ LET r == [call[p] EXCEPT !.nonce = poolNonce, !.openBuilt = TRUE,
                              !.lastRead = poolNonce]
     IN \/ Set(p, Ret(r, SignErr))
        \/ Set(p, [r EXCEPT !.pc = "openAdd"])
  /\ UNCHANGED <<TxSignMu, pool, poolNonce, dbKey, ncalls, cfg, keyLog, notTx>>

OpeningTx(b, n, k) == [kind |-> "opening", blk |-> b, nonce |-> n, key |-> k]

\* an opening submission whose error is not looked at: the key is deleted anyway
OpeningAddLocalUnchecked(p) ==
  /\ call[p].pc = "openAdd"
  /\ \/ /\ pool' = Append(pool, OpeningTx(call[p].blk, call[p].nonce, call[p].key))
        /\ Set(p, [call[p] EXCEPT !.pc = "openDel", !.openSub = TRUE])
     \/ /\ Set(p, [call[p] EXCEPT !.pc = "openDel"])
        /\ UNCHANGED pool
  /\ UNCHANGED <<TxSignMu, poolNonce, dbKey, ncalls, cfg, keyLog, notTx>>

\* pool.AddLocal(txSigned) of the opening transaction
OpeningAddLocal(p) ==
  /\ call[p].pc = "openAdd"
  /\ \/ /\ pool' = Append(pool, OpeningTx(call[p].blk, call[p].nonce, call[p].key))
        /\ Set(p, [call[p] EXCEPT !.pc = "openDel", !.openSub = TRUE])
     \/ /\ \E e \in PoolErrs : Set(p, Ret(call[p], e))
        /\ UNCHANGED pool
  /\ UNCHANGED <<TxSignMu, poolNonce, dbKey, ncalls, cfg, keyLog, notTx>>

\* chainDb.Delete(randomizeKeyName); return nil
OpeningDelete(p) ==
  /\ call[p].pc = "openDel"
  /\ dbKey' = NoKey
  /\ keyLog' = Append(keyLog, [op |-> "delete", blk |-> call[p].blk])
  /\ Set(p, Ret([call[p] EXCEPT !.keyOps = @ \cup {"delete"}], "nil"))
  /\ UNCHANGED <<TxSignMu, pool, poolNonce, ncalls, cfg, notTx>>

\* defer TxSignMu.Unlock() runs on every way out of the function
Unlock(p) ==
  /\ call[p].pc = "ret"
  /\ TxSignMu' = TxSignMu \ {p}
  /\ Set(p, IdleCall)
  /\ UNCHANGED <<pool, poolNonce, dbKey, ncalls, cfg, keyLog, notTx>>

\* other transactions of the account move the nonce the pool reports
NonceAdvance ==
  /\ poolNonce < MaxNonce
  /\ poolNonce' = poolNonce + 1
  /\ UNCHANGED <<TxSignMu, call, pool, dbKey, ncalls, cfg, keyLog, notTx>>

TxStep(p) ==
  \/ \E b \in 0..MaxBlock : Invoke(p, b)
  \/ Lock(p)
  \/ ConfigCheck(p)
  \/ FindAccount(p)
  \/ ReadNonce(p)
  \/ SignTxSign(p)
  \/ AddLocalSign(p)
  \/ HasKey(p)
  \/ SecretCheck(p)
  \/ SecretBuildSign(p)
  \/ SecretAddLocal(p)
  \/ SecretPut(p)
  \/ OpenCheck(p)
  \/ OpeningGet(p)
  \/ OpeningBuildSign(p)
  \/ OpeningAddLocal(p)
  \/ OpeningDelete(p)
  \/ Unlock(p)

TxNext == (\E p \in Callers : TxStep(p)) \/ NonceAdvance

\* configurations with 0 < EpocBlockSecret < EpocBlockOpening <= EpocBlockRandomize
\* < Epoch: windows of one block, a commit window of two, a reveal window of two
EpochCycleConfigs ==
  { [Epoch |-> 4, Secret |-> 1, Opening |-> 2, Randomize |-> 2],
    [Epoch |-> 5, Secret |-> 1, Opening |-> 3, Randomize |-> 3],
    [Epoch |-> 4, Secret |-> 1, Opening |-> 2, Randomize |-> 3] }

\* the epochs followed
EpochIndexes == {0, 1}

\* the block-processing path at the first block of an epoch, no key stored;
\* the log starts with the epoch's first block
EpochInit ==
  /\ TxSignMu = {}
  /\ call = [p \in Callers |-> IdleCall]
  /\ pool = <<>>
  /\ poolNonce = 0
  /\ dbKey = NoKey
  /\ cfg \in EpochCycleConfigs
  /\ ncalls = cfg.Epoch
  /\ \E e \in EpochIndexes : keyLog = << [op |-> "epoch", blk |-> e * cfg.Epoch] >>

\* the block the path processes next
EpochBlock == keyLog[1].blk + (cfg.Epoch - ncalls)

\* what the calls made so far returned
EpochReturns ==
  SelectSeq(keyLog, LAMBDA x : x.op \notin {"epoch", "put", "get", "delete"})

\* no call returned the error of a signature or of a submission to the pool
SubmissionsOk ==
  \A k \in 1..Len(EpochReturns) : EpochReturns[k].op \in {"nil", DbErr}

\* the path enters CreateTransactionSign for the next block of the epoch; the
\* epoch is followed as long as no signature and no submission failed
EpochInvoke ==
  /\ call[1].pc = "idle"
  /\ SubmissionsOk
  /\ ncalls > 0
  /\ ncalls' = ncalls - 1
  /\ Set(1, [IdleCall EXCEPT !.pc = "lock", !.blk = EpochBlock])
  /\ UNCHANGED <<TxSignMu, pool, poolNonce, dbKey, cfg, keyLog, notTx>>

\* what the path sees of a call: its error, or that the function had no
\* S2PoS configuration and did nothing
Outcome(r) == IF r.ret = "nil" /\ r.signAdds = 0 THEN "noConfig" ELSE r.ret

\* the deferred Unlock, and the path taking note of what the call returned
EpochReturn ==
  /\ call[1].pc = "ret"
  /\ TxSignMu' = TxSignMu \ {1}
  /\ Set(1, IdleCall)
  /\ keyLog' = Append(keyLog, [op |-> Outcome(call[1]), blk |-> call[1].blk])
  /\ UNCHANGED <<pool, poolNonce, dbKey, ncalls, cfg, notTx>>

\* the body of CreateTransactionSign, one statement at a time
EpochStep ==
  \/ Lock(1)
  \/ ConfigCheck(1)
  \/ FindAccount(1)
  \/ ReadNonce(1)
  \/ SignTxSign(1)
  \/ AddLocalSign(1)
  \/ HasKey(1)
  \/ SecretCheck(1)
  \/ SecretBuildSign(1)
  \/ SecretAddLocal(1)
  \/ SecretPut(1)
  \/ OpenCheck(1)
  \/ OpeningGet(1)
  \/ OpeningBuildSign(1)
  \/ OpeningAddLocal(1)
  \/ OpeningDelete(1)

EpochNext ==
  \/ EpochInvoke
  \/ EpochStep
  \/ EpochReturn
  \/ NonceAdvance

\* the transaction builder at rest
TxIdle ==
  /\ TxSignMu = {}
  /\ call = [p \in Callers |-> IdleCall]
  /\ pool = <<>>
  /\ poolNonce = 0
  /\ dbKey = NoKey
  /\ ncalls = 0
  /\ cfg = [Epoch |-> 4, Secret |-> 1, Opening |-> 2, Randomize |-> 3]
  /\ keyLog = <<>>

(***************************************************************************)
(* GetRewardForCheckpoint.                                                 *)
(***************************************************************************)
\* addresses sending sign transactions
Addrs == {"a", "b"}
\* header.Hash() of the ancestor block numbered i
HashOf(i) == 100 + i
\* the hash of a block that is not an ancestor of the checkpoint header
ForeignHash == 99

\* checkpoint header number and rCheckpoint
Checkpoints == { [number |-> 6, r |-> 2], [number |-> 3, r |-> 1] }
\* utils.GetMasternodesFromCheckpointHeader of the header at prevCheckpoint
MasternodeLists == { <<>>, <<"a">>, <<"a", "b">> }
\* chain.Config(): S2PoS.Epoch, common.MergeSignRange, the TIP2019 block
ChainConfigs ==
  { [epoch |-> 4, merge |-> 2, tip2019 |-> 0],
    [epoch |-> 4, merge |-> 2, tip2019 |-> 4] }
\* values of the counter behind totalSigner at the call
TotalSignerStarts == {0, 1}

\* prevCheckpoint := number - (rCheckpoint * 2)
prevCheckpoint(c) == c.number - (c.r * 2)
\* startBlockNumber := prevCheckpoint + 1
startBlockNumber(c) == prevCheckpoint(c) + 1
\* endBlockNumber := startBlockNumber + rCheckpoint - 1
endBlockNumber(c) == startBlockNumber(c) + c.r - 1

\* a walk that starts reading only after the reward window
WalkFirstAfterWindow(c) == endBlockNumber(c) + 1

\* the walk reads the blocks from number - 1 down to startBlockNumber
WalkFirst(c) == startBlockNumber(c)
WalkLast(c) == prevCheckpoint(c) + (c.r * 2) - 1

\* the ancestors of the checkpoint header above prevCheckpoint
ChainBlocks(c) == (prevCheckpoint(c) + 1)..(c.number - 1)

\* block hashes a sign transaction can carry in its trailing 32 bytes
RefHashes(c) == {HashOf(i) : i \in ChainBlocks(c)} \cup {ForeignHash}

\* data[blkHash] = append(data[blkHash], from) for each transaction of a block
RECURSIVE AppendTxs(_, _, _)
AppendTxs(data, txs, k) ==
  IF k > Len(txs) THEN data
  ELSE LET h == txs[k].ref
           old == IF h \in DOMAIN data THEN data[h] ELSE <<>>
       IN AppendTxs((h :> Append(old, txs[k].from)) @@ data, txs, k + 1)

\* for i := prevCheckpoint + (rCheckpoint * 2) - 1; i >= startBlockNumber; i--
RECURSIVE WalkBack(_, _, _, _)
WalkBack(blocks, i, first, data) ==
  IF i < first THEN data
  ELSE WalkBack(blocks, i - 1, first,
                IF i \in DOMAIN blocks THEN AppendTxs(data, blocks[i], 1) ELSE data)

\* chain.Config().IsTIP2019(i)
IsTIP2019(i, c) == c.tip2019 <= i

\* every window block taken as eligible
EligibleAlways(i, c) == TRUE

\* i%epoch < MergeSignRange || i%MergeSignRange == 0 || !IsTIP2019(i)
Eligible(i, c) ==
  \/ i % c.epoch < c.merge
  \/ i % c.merge = 0
  \/ ~IsTIP2019(i, c)

\* every sender counted, masternode or not
AddrSignersAll(masternodes, addrs) == { addrs[j] : j \in 1..Len(addrs) }

\* the masternodes found among addrs (the first match ends the inner loop)
AddrSigners(masternodes, addrs) ==
  { masternodes[k] : k \in { k \in 1..Len(masternodes) :
                              \E j \in 1..Len(addrs) : addrs[j] = masternodes[k] } }

\* a tally that moves the counter only for a signer it sees for the first time
RECURSIVE CreditCountsNew(_, _)
CreditCountsNew(st, todo) ==
  IF todo = {} THEN st
  ELSE LET addr == CHOOSE x \in todo : TRUE
       IN CreditCountsNew(
            IF addr \in DOMAIN st.signers
              THEN [st EXCEPT !.signers[addr].Sign = @ + 1]
              ELSE [signers |-> (addr :> [Sign |-> 1, Reward |-> 0]) @@ st.signers,
                    total |-> st.total + 1],
            todo \ {addr})

\* for addr := range addrSigners { Sign++ or new rewardLog{1, 0}; *totalSigner++ }
RECURSIVE Credit(_, _)
Credit(st, todo) ==
  IF todo = {} THEN st
  ELSE LET addr == CHOOSE x \in todo : TRUE
           sg == IF addr \in DOMAIN st.signers
                   THEN [st.signers EXCEPT ![addr].Sign = @ + 1]
                   ELSE (addr :> [Sign |-> 1, Reward |-> 0]) @@ st.signers
       IN Credit([signers |-> sg, total |-> st.total + 1], todo \ {addr})

\* the orders in which a range statement may visit the keys S of a map
RangeOrders(S) ==
  { q \in [1..Cardinality(S) -> S] : \A x \in S : \E k \in 1..Cardinality(S) : q[k] = x }

\* the keys S in the order the runtime picked: pri lists every address once
OrderBy(S, pri) == SelectSeq(pri, LAMBDA x : x \in S)

\* for addr := range addrSigners, visiting the keys in the order given
RECURSIVE CreditIn(_, _)
CreditIn(st, order) ==
  IF order = <<>> THEN st ELSE CreditIn(Credit(st, {Head(order)}), Tail(order))

\* the loop over the window with the maps ranged over as pri says
RECURSIVE TallyIn(_, _, _, _, _)
TallyIn(c, data, i, st, pri) ==
  IF i > endBlockNumber(c) THEN st
  ELSE LET addrs == IF HashOf(i) \in DOMAIN data THEN data[HashOf(i)] ELSE <<>>
       IN TallyIn(c, data, i + 1,
                  IF Eligible(i, c) /\ Len(addrs) > 0
                    THEN CreditIn(st, OrderBy(AddrSigners(c.masternodes, addrs), pri))
                    ELSE st,
                  pri)

\* for i := startBlockNumber; i <= endBlockNumber; i++
RECURSIVE Tally(_, _, _, _)
Tally(c, data, i, st) ==
  IF i > endBlockNumber(c) THEN st
  ELSE LET addrs == IF HashOf(i) \in DOMAIN data THEN data[HashOf(i)] ELSE <<>>
       IN Tally(c, data, i + 1,
                IF Eligible(i, c) /\ Len(addrs) > 0
                  THEN Credit(st, AddrSigners(c.masternodes, addrs))
                  ELSE st)

EmptyMap == [x \in {} |-> 0]

\* the signer map and the counter after GetRewardForCheckpoint
GetRewardForCheckpoint(c, blocks, total0) ==
  LET data == WalkBack(blocks, WalkLast(c), WalkFirst(c), EmptyMap)
  IN Tally(c, data, startBlockNumber(c), [signers |-> EmptyMap, total |-> total0])

\* the numbers of the headers the function asks the chain reader for, in
\* order: header = chain.GetHeader(header.ParentHash, i) for every i of the
\* walk, then chain.GetHeader(header.ParentHash, prevCheckpoint)
HeaderFetches(c) ==
  LET n == IF WalkLast(c) >= WalkFirst(c) THEN WalkLast(c) - WalkFirst(c) + 1 ELSE 0
  IN [k \in 1..(n + 1) |-> IF k <= n THEN WalkLast(c) - k + 1 ELSE prevCheckpoint(c)]

NoWalk == [fetched |-> <<>>, missing |-> {}]

NoCalc == [result |-> EmptyMap, err |-> "none", divs |-> 0, chainReward |-> 0]

RewardInit ==
  /\ \E ck \in Checkpoints, ms \in MasternodeLists, cc \in ChainConfigs :
       rwCfg = [number |-> ck.number, r |-> ck.r, masternodes |-> ms,
                epoch |-> cc.epoch, merge |-> cc.merge, tip2019 |-> cc.tip2019]
  /\ chainTx = [i \in ChainBlocks(rwCfg) |-> <<>>]
  /\ rwPc = "build"
  /\ walk = NoWalk
  /\ signers = EmptyMap
  /\ totalSigner \in TotalSignerStarts
  /\ calc = NoCalc

RECURSIVE SeqSum(_)
SeqSum(q) == IF q = <<>> THEN 0 ELSE Head(q) + SeqSum(Tail(q))

TxCount == SeqSum([k \in 1..(rwCfg.number - startBlockNumber(rwCfg)) |->
                     Len(chainTx[startBlockNumber(rwCfg) + k - 1])])

\* the block numbered j of the ancestor chain contains one more sign
\* transaction, sent by from, whose data ends with the hash ref
AddSignTx(j, from, ref) ==
  /\ rwPc = "build"
  /\ TxCount < MaxTxs
  /\ chainTx' = [chainTx EXCEPT ![j] = Append(@, [from |-> from, ref |-> ref])]
  /\ UNCHANGED <<rwCfg, rwPc, walk, signers, totalSigner, calc, notRw>>

RunTally ==
  /\ rwPc = "build"
  /\ LET st == GetRewardForCheckpoint(rwCfg, chainTx, totalSigner)
     IN /\ signers' = st.signers
        /\ totalSigner' = st.total
  /\ rwPc' = "tallied"
  /\ walk' = [fetched |-> HeaderFetches(rwCfg), missing |-> {}]
  /\ UNCHANGED <<rwCfg, chainTx, calc, notRw>>

\* the chain reader has no header numbered i: GetHeader returns nil, and the
\* function, which tests no header and no block for nil, dereferences it
\* (header.ParentHash, header.Number, block.Transactions()); it has no
\* statement that returns an error
RunTallyMissing(i) ==
  /\ rwPc = "build"
  /\ \E k \in 1..Len(HeaderFetches(rwCfg)) :
       /\ HeaderFetches(rwCfg)[k] = i
       /\ walk' = [fetched |-> SubSeq(HeaderFetches(rwCfg), 1, k), missing |-> {i}]
  /\ rwPc' = "panicked"
  /\ UNCHANGED <<rwCfg, chainTx, signers, totalSigner, calc, notRw>>

(***************************************************************************)
(* The loops of GetRewardForCheckpoint turn by turn, in the unsigned        *)
(* arithmetic of uint64, scaled down to a word of four bits; every header   *)
(* asked for is present.                                                    *)
(***************************************************************************)
Uint64 == 0..15

\* uint64 arithmetic wraps around
WrapU(x) == ((x % Cardinality(Uint64)) + Cardinality(Uint64)) % Cardinality(Uint64)

\* the largest rCheckpoint tried
MaxR == 3

\* the turns a loop is followed for
MaxFetch == 8

\* prevCheckpoint := number - (rCheckpoint * 2)
prevCheckpointU(c) == WrapU(c.number - WrapU(c.r * 2))

\* startBlockNumber := prevCheckpoint + 1
startBlockNumberU(c) == WrapU(prevCheckpointU(c) + 1)

\* endBlockNumber := startBlockNumber + rCheckpoint - 1
endBlockNumberU(c) == WrapU(WrapU(startBlockNumberU(c) + c.r) - 1)

\* i := prevCheckpoint + (rCheckpoint * 2) - 1
WalkFromU(c) == WrapU(WrapU(prevCheckpointU(c) + WrapU(c.r * 2)) - 1)

\* entry of GetRewardForCheckpoint for a header numbered number
WalkInit ==
  /\ \E n \in Uint64, r \in 1..MaxR :
       rwCfg = [number |-> n, r |-> r, masternodes |-> <<>>,
                epoch |-> 4, merge |-> 2, tip2019 |-> 0]
  /\ chainTx = <<>>
  /\ rwPc = "start"
  /\ walk = [fetched |-> <<>>, missing |-> {}, i |-> 0, turns |-> 0]
  /\ signers = EmptyMap
  /\ totalSigner = 0
  /\ calc = NoCalc

\* the initialisation of the first loop
WalkBegin ==
  /\ rwPc = "start"
  /\ rwPc' = "walk"
  /\ walk' = [walk EXCEPT !.i = WalkFromU(rwCfg)]
  /\ UNCHANGED <<rwCfg, chainTx, signers, totalSigner, calc, notRw>>

\* i >= startBlockNumber
WalkGoesOn(i, c) == i >= startBlockNumberU(c)

\* one turn of the first loop: header = chain.GetHeader(header.ParentHash, i); i--
WalkHeader ==
  /\ rwPc = "walk"
  /\ WalkGoesOn(walk.i, rwCfg)
  /\ walk.turns < MaxFetch
  /\ walk' = [walk EXCEPT !.fetched = Append(@, walk.i), !.i = WrapU(walk.i - 1),
                          !.turns = @ + 1]
  /\ UNCHANGED <<rwCfg, chainTx, rwPc, signers, totalSigner, calc, notRw>>

\* header = chain.GetHeader(header.ParentHash, prevCheckpoint), and the
\* initialisation of the second loop
WalkCheckpoint ==
  /\ rwPc = "walk"
  /\ ~WalkGoesOn(walk.i, rwCfg)
  /\ walk' = [walk EXCEPT !.fetched = Append(@, prevCheckpointU(rwCfg)),
                          !.i = startBlockNumberU(rwCfg), !.turns = 0]
  /\ rwPc' = "tally"
  /\ UNCHANGED <<rwCfg, chainTx, signers, totalSigner, calc, notRw>>

\* one turn of for i := startBlockNumber; i <= endBlockNumber; i++
WalkTallyBlock ==
  /\ rwPc = "tally"
  /\ walk.i <= endBlockNumberU(rwCfg)
  /\ walk.turns < MaxFetch
  /\ walk' = [walk EXCEPT !.i = WrapU(walk.i + 1), !.turns = @ + 1]
  /\ UNCHANGED <<rwCfg, chainTx, rwPc, signers, totalSigner, calc, notRw>>

\* return signers, nil
WalkReturn ==
  /\ rwPc = "tally"
  /\ walk.i > endBlockNumberU(rwCfg)
  /\ rwPc' = "done"
  /\ UNCHANGED <<rwCfg, chainTx, walk, signers, totalSigner, calc, notRw>>

WalkNext ==
  \/ WalkBegin
  \/ WalkHeader
  \/ WalkCheckpoint
  \/ WalkTallyBlock
  \/ WalkReturn

(***************************************************************************)
(* CalculateRewardForSigner.                                               *)
(***************************************************************************)
\* chainReward values
ChainRewards == {0, 7, 10, 1000}

\* multiplying before dividing
SignerRewardMulFirst(chainReward, totalSigner_, sign) ==
  (chainReward * sign) \div totalSigner_

\* calcReward.Div(chainReward, totalSigner); calcReward.Mul(calcReward, rLog.Sign)
SignerReward(chainReward, totalSigner_, sign) ==
  (chainReward \div totalSigner_) * sign

\* for signer, rLog := range signers { ... }
RECURSIVE RewardSigners(_, _, _, _)
RewardSigners(chainReward, totalSigner_, st, todo) ==
  IF todo = {} THEN st
  ELSE LET signer == CHOOSE x \in todo : TRUE
           calcReward == SignerReward(chainReward, totalSigner_, st.signers[signer].Sign)
       IN RewardSigners(chainReward, totalSigner_,
            [signers |-> [st.signers EXCEPT ![signer].Reward = calcReward],
             result |-> (signer :> calcReward) @@ st.result,
             divs |-> st.divs + 1],
            todo \ {signer})

\* for signer, rLog := range signers, visiting the keys in the order given
RECURSIVE RewardSignersIn(_, _, _, _)
RewardSignersIn(chainReward, totalSigner_, st, order) ==
  IF order = <<>> THEN st
  ELSE RewardSignersIn(chainReward, totalSigner_,
                       RewardSigners(chainReward, totalSigner_, st, {Head(order)}),
                       Tail(order))

CalculateRewardForSigner(chainReward, signers_, totalSigner_) ==
  LET st0 == [signers |-> signers_, result |-> EmptyMap, divs |-> 0]
      st == IF totalSigner_ > 0
              THEN RewardSigners(chainReward, totalSigner_, st0, DOMAIN signers_)
              ELSE st0
  IN [signers |-> st.signers, result |-> st.result, divs |-> st.divs, err |-> "nil"]

RunCalc ==
  /\ rwPc = "tallied"
  /\ \E chainReward \in ChainRewards :
       LET out == CalculateRewardForSigner(chainReward, signers, totalSigner)
       IN /\ signers' = out.signers
          /\ calc' = [result |-> out.result, err |-> out.err, divs |-> out.divs,
                      chainReward |-> chainReward]
  /\ rwPc' = "rewarded"
  /\ UNCHANGED <<rwCfg, chainTx, walk, totalSigner, notRw>>

RewardNext ==
  \/ \E j \in ChainBlocks(rwCfg), from \in Addrs, ref \in RefHashes(rwCfg) :
       AddSignTx(j, from, ref)
  \/ RunTally
  \/ \E i \in ChainBlocks(rwCfg) \cup {prevCheckpoint(rwCfg)} : RunTallyMissing(i)
  \/ RunCalc

\* any signer map and any counter handed to CalculateRewardForSigner
SignerMaps ==
  UNION { [S -> [Sign : 0..MaxSign, Reward : {0}]] : S \in SUBSET Addrs }

CalcInit ==
  /\ rwCfg = [number |-> 6, r |-> 2, masternodes |-> <<>>,
              epoch |-> 4, merge |-> 2, tip2019 |-> 0]
  /\ chainTx = [i \in ChainBlocks(rwCfg) |-> <<>>]
  /\ rwPc = "tallied"
  /\ walk = NoWalk
  /\ signers \in SignerMaps
  /\ totalSigner \in 0..(MaxSign + 1)
  /\ calc = NoCalc

RewardIdle ==
  /\ rwCfg = [number |-> 6, r |-> 2, masternodes |-> <<>>,
              epoch |-> 4, merge |-> 2, tip2019 |-> 0]
  /\ chainTx = [i \in ChainBlocks(rwCfg) |-> <<>>]
  /\ rwPc = "rewarded"
  /\ walk = NoWalk
  /\ signers = EmptyMap
  /\ totalSigner = 0
  /\ calc = NoCalc


(***************************************************************************)
(* GetRewardBalancesRate.                                                  *)
(***************************************************************************)
\* the full-cap threshold 50000000000000000000000, in units of 10^18
TargetValue == 50000
\* common.RewardMasterPercent, common.RewardSyncPercent
RewardMasterPercent == 50
RewardSyncPercent == 40
\* common.RewardVoterPercent, common.RewardFoundationPercent, common.TIP2019Block
RewardConfigs ==
  { [voter |-> 0, foundation |-> 10, tip2019 |-> 1],
    [voter |-> 40, foundation |-> 10, tip2019 |-> 1] }

\* the masternode, its owner, the foundation wallet and two more accounts
MasterAddr == "m"
FoundationAddr == "f"
Owners == {"m", "o"}
VoterAddrs == {"m", "f", "v", "w"}
\* stateDatabase.GetVoterCap(state, masterAddr, voter), per voter
VoterCapMaps ==
  { [x \in VoterAddrs |-> 1],
    ("m" :> 0) @@ ("f" :> 2) @@ ("v" :> 1) @@ ("w" :> 2),
    ("m" :> 2) @@ ("f" :> 0) @@ ("v" :> 0) @@ ("w" :> 3) }
StakeCaps == {TargetValue - 1, TargetValue, TargetValue + 1}
TotalRewards == {0, 7, 100, 999}
BlockNumbers == {0, 1}

VoterLists == UNION { [1..n -> VoterAddrs] : n \in 0..MaxVoters }

\* a tier test that takes every cap from the threshold up as full-cap
TierPercentAtLeast(stakeCap) ==
  IF stakeCap >= TargetValue THEN RewardMasterPercent ELSE RewardSyncPercent

\* if stakeCap.Cmp(targetValue) == 0 { RewardMasterPercent } else { RewardSyncPercent }
TierPercent(stakeCap) ==
  IF stakeCap = TargetValue THEN RewardMasterPercent ELSE RewardSyncPercent

\* reward := totalReward * rewardPercent / 100
TierReward(stakeCap, totalReward) == (totalReward * TierPercent(stakeCap)) \div 100

\* a voter loop that counts the cap of a voter again each time it is listed
RECURSIVE CollectCapsRecount(_, _, _)
CollectCapsRecount(in, k, acc) ==
  IF k > Len(in.voters) THEN acc
  ELSE CollectCapsRecount(in, k + 1,
         [caps |-> (in.voters[k] :> in.voterCap[in.voters[k]]) @@ acc.caps,
          total |-> acc.total + in.voterCap[in.voters[k]]])

\* a voter loop that skips a repeated voter at every block number
RECURSIVE CollectCapsOnce(_, _, _)
CollectCapsOnce(in, k, acc) ==
  IF k > Len(in.voters) THEN acc
  ELSE LET voteAddr == in.voters[k]
       IN IF voteAddr \in DOMAIN acc.caps
            THEN CollectCapsOnce(in, k + 1, acc)
            ELSE CollectCapsOnce(in, k + 1,
                   [caps |-> (voteAddr :> in.voterCap[voteAddr]) @@ acc.caps,
                    total |-> acc.total + in.voterCap[voteAddr]])

\* the voter loop: caps of the counted voters and their sum
RECURSIVE CollectCaps(_, _, _)
CollectCaps(in, k, acc) ==
  IF k > Len(in.voters) THEN acc
  ELSE LET voteAddr == in.voters[k]
       IN IF voteAddr \in DOMAIN acc.caps /\ in.tip2019 <= in.blockNumber
            THEN CollectCaps(in, k + 1, acc)
            ELSE CollectCaps(in, k + 1,
                   [caps |-> (voteAddr :> in.voterCap[voteAddr]) @@ acc.caps,
                    total |-> acc.total + in.voterCap[voteAddr]])

\* a share rounded up
VoterShareCeil(totalVoterReward, voteCap, totalCap) ==
  (totalVoterReward * voteCap + totalCap - 1) \div totalCap

\* rcap := totalVoterReward * voteCap / totalCap
VoterShare(totalVoterReward, voteCap, totalCap) ==
  (totalVoterReward * voteCap) \div totalCap

\* for addr, voteCap := range voterCaps { if voteCap > 0 { balances[addr] += rcap } }
RECURSIVE PayVoters(_, _, _, _)
PayVoters(balances, totalVoterReward, acc, todo) ==
  IF todo = {} THEN balances
  ELSE LET addr == CHOOSE x \in todo : TRUE
           rcap == VoterShare(totalVoterReward, acc.caps[addr], acc.total)
           nb == IF acc.caps[addr] > 0
                   THEN IF addr \in DOMAIN balances
                          THEN [balances EXCEPT ![addr] = @ + rcap]
                          ELSE (addr :> rcap) @@ balances
                   ELSE balances
       IN PayVoters(nb, totalVoterReward, acc, todo \ {addr})

\* a payout that divides by the caps of the voters visited so far
RECURSIVE PayVotersRunningCap(_, _, _, _)
PayVotersRunningCap(balances, totalVoterReward, acc, order) ==
  IF order = <<>> THEN balances
  ELSE LET seen == [acc EXCEPT !.total = acc.caps[Head(order)] +
                                         IF Len(order) = Cardinality(DOMAIN acc.caps)
                                           THEN 0 ELSE acc.total]
       IN PayVotersRunningCap(
            IF seen.total > 0
              THEN PayVoters(balances, totalVoterReward, seen, {Head(order)})
              ELSE balances,
            totalVoterReward, seen, Tail(order))

\* for addr, voteCap := range voterCaps, visiting the keys in the order given
RECURSIVE PayVotersIn(_, _, _, _)
PayVotersIn(balances, totalVoterReward, acc, order) ==
  IF order = <<>> THEN balances
  ELSE PayVotersIn(PayVoters(balances, totalVoterReward, acc, {Head(order)}),
                   totalVoterReward, acc, Tail(order))

\* balances[masterAddr] = reward
TierCreditAddr(in) == in.masterAddr

\* the foundation share added to what the address already holds
AddFoundation(balances, addr, foundationReward) ==
  IF addr \in DOMAIN balances
    THEN [balances EXCEPT ![addr] = @ + foundationReward]
    ELSE (addr :> foundationReward) @@ balances

\* balances[foundationWalletAddr] = foundationReward
SetFoundation(balances, addr, foundationReward) ==
  (addr :> foundationReward) @@ balances

GetRewardBalancesRate(in) ==
  LET reward == TierReward(in.stakeCap, in.totalReward)
      b1 == (TierCreditAddr(in) :> reward)
      totalVoterReward == (in.totalReward * in.voterPercent) \div 100
      acc == CollectCaps(in, 1, [caps |-> EmptyMap, total |-> 0])
      b2 == IF Len(in.voters) > 0 /\ acc.total > 0
              THEN PayVoters(b1, totalVoterReward, acc, DOMAIN acc.caps)
              ELSE b1
      foundationReward == (in.totalReward * in.foundationPercent) \div 100
      b3 == SetFoundation(b2, in.foundationWalletAddr, foundationReward)
      \* what the voter loop added, entry by entry
      credits == IF Len(in.voters) > 0 /\ acc.total > 0
                   THEN PayVoters(EmptyMap, totalVoterReward, acc, DOMAIN acc.caps)
                   ELSE EmptyMap
  IN [balances |-> b3, reward |-> reward, err |-> "nil", credits |-> credits]

NoBalances == [balances |-> EmptyMap, reward |-> 0, err |-> "none", credits |-> EmptyMap]

BalancesInit ==
  /\ \E rc \in RewardConfigs, ow \in Owners, vs \in VoterLists, vc \in VoterCapMaps,
        sc \in StakeCaps, tr \in TotalRewards, bn \in BlockNumbers :
       balIn = [foundationWalletAddr |-> FoundationAddr, masterAddr |-> MasterAddr,
                owner |-> ow, stakeCap |-> sc, voters |-> vs, voterCap |-> vc,
                totalReward |-> tr, blockNumber |-> bn,
                voterPercent |-> rc.voter, foundationPercent |-> rc.foundation,
                tip2019 |-> rc.tip2019]
  /\ balOut = NoBalances
  /\ balPc = "in"

RunBalances ==
  /\ balPc = "in"
  /\ balOut' = GetRewardBalancesRate(balIn)
  /\ balPc' = "out"
  /\ UNCHANGED <<balIn, notBal>>

BalancesNext == RunBalances

BalancesIdle ==
  /\ balIn = [foundationWalletAddr |-> FoundationAddr, masterAddr |-> MasterAddr,
              owner |-> MasterAddr, stakeCap |-> TargetValue, voters |-> <<>>,
              voterCap |-> [x \in VoterAddrs |-> 1],
              totalReward |-> 0, blockNumber |-> 0,
              voterPercent |-> 0, foundationPercent |-> 10, tip2019 |-> 1]
  /\ balOut = NoBalances
  /\ balPc = "out"

(***************************************************************************)
(* GenM2FromRandomize and the shared source of math/rand.                  *)
(***************************************************************************)
\* highest lenSigners
MaxValidators == 3
\* longest list of randomizes
MaxSecrets == 2

\* the values of int64, scaled down to a word of three bits
Int64 == (0 - 4)..3
\* int64 arithmetic wraps around
Wrap(x) == ((x - (0 - 4)) % Cardinality(Int64)) + (0 - 4)

\* decrypted secrets
SecretValues == {0 - 2, 3}
RandomizeLists == UNION { [1..n -> SecretValues] : n \in 0..MaxSecrets }

\* the states of the generator behind rand.Seed and rand.Intn
RngStates == 0..7
\* the generator moves to its next state with every number drawn
NextRng(x) == ((5 * x) + 3) % Cardinality(RngStates)
\* rand.Intn(k): a number in [0, k) that the state of the generator determines
Intn(x, k) == x % k

\* a seeding that leaves the generator in the state it was in
SeededKeep(x, seed) == x

\* rand.Seed(seed) puts the generator in a state that seed alone determines
Seeded(x, seed) == seed % Cardinality(RngStates)

\* NewSlice(start, end, step)
NewSlice(start, end, step) == [k \in 1..(end - start) |-> start + ((k - 1) * step)]

\* for _, j := range randomizes { total += j }
RECURSIVE TotalOf(_, _)
TotalOf(randomizes, k) ==
  IF k > Len(randomizes) THEN 0
  ELSE Wrap(randomizes[k] + TotalOf(randomizes, k + 1))

\* the invocations of GenM2FromRandomize that are compared
M2Runs == {1, 2}

NoM2 == [pc |-> "idle", run |-> 0, randomizes |-> <<>>, lenSigners |-> 0, total |-> 0,
         i |-> 0, blockValidator |-> <<>>, randIndexs |-> <<>>]
NoM2Out == [done |-> FALSE, randomizes |-> <<>>, lenSigners |-> 0, total |-> 0,
            out |-> <<>>]

\* the generator of a process that has not seeded it: rand.Seed(1)
M2Init ==
  /\ rng = Seeded(0, 1)
  /\ m2 = NoM2
  /\ m2Out = [r \in M2Runs |-> NoM2Out]

\* the other users of the package-level generator: RandStringByte, Shuffle and
\* BuildTxSecretRandomize seed it from the clock and draw from it
OtherRand ==
  /\ m2.pc = "idle"
  /\ \E r \in M2Runs : ~m2Out[r].done
  /\ \E x \in RngStates \ {rng} : rng' = x
  /\ UNCHANGED <<m2, m2Out, notM2>>

\* entry: blockValidator, randIndexs, total
M2Call(r, randomizes, lenSigners) ==
  /\ m2.pc = "idle"
  /\ ~m2Out[r].done
  /\ \A q \in M2Runs : q < r => m2Out[q].done
  /\ m2' = [pc |-> "seed", run |-> r, randomizes |-> randomizes,
            lenSigners |-> lenSigners, total |-> TotalOf(randomizes, 1),
            i |-> lenSigners - 1,
            blockValidator |-> NewSlice(0, lenSigners, 1),
            randIndexs |-> [k \in 1..lenSigners |-> 0]]
  /\ UNCHANGED <<rng, m2Out, notM2>>

\* rand.Seed(total)
M2Seed ==
  /\ m2.pc = "seed"
  /\ rng' = Seeded(rng, m2.total)
  /\ m2' = [m2 EXCEPT !.pc = "loop"]
  /\ UNCHANGED <<m2Out, notM2>>

\* a swap that loses the element at position i
M2SwapCopy(bv, r, i) == [bv EXCEPT ![i + 1] = bv[r + 1]]

\* temp = bv[r]; bv[r] = bv[i]; bv[i] = temp (positions counted from 0)
M2Swap(bv, r, i) == [bv EXCEPT ![r + 1] = bv[i + 1], ![i + 1] = bv[r + 1]]

\* a bound on the draw that lets it reach position i itself
BlockLengthWhole(bv) == Len(bv)

\* blockLength := len(blockValidator) - 1; if blockLength <= 1 { blockLength = 1 }
BlockLength(bv) == IF Len(bv) - 1 <= 1 THEN 1 ELSE Len(bv) - 1

\* one turn of the loop for i := len(blockValidator) - 1; i >= 0; i--
M2Step ==
  /\ m2.pc = "loop"
  /\ m2.i >= 0
  /\ LET randomIndex == Intn(rng, BlockLength(m2.blockValidator))
         swapped == M2Swap(m2.blockValidator, randomIndex, m2.i)
         temp == swapped[m2.i + 1]
     IN m2' = [m2 EXCEPT !.blockValidator =
                            SubSeq(swapped, 1, m2.i) \o
                            SubSeq(swapped, m2.i + 2, Len(swapped)),
                          !.randIndexs = [@ EXCEPT ![m2.i + 1] = temp],
                          !.i = @ - 1]
  /\ rng' = NextRng(rng)
  /\ UNCHANGED <<m2Out, notM2>>

\* return randIndexs, nil
M2Return ==
  /\ m2.pc = "loop"
  /\ m2.i < 0
  /\ m2Out' = [m2Out EXCEPT ![m2.run] =
                 [NoM2Out EXCEPT !.done = TRUE, !.randomizes = m2.randomizes,
                           !.lenSigners = m2.lenSigners, !.total = m2.total,
                           !.out = m2.randIndexs]]
  /\ m2' = NoM2
  /\ UNCHANGED <<rng, notM2>>

M2Next ==
  \/ \E r \in M2Runs, randomizes \in RandomizeLists, lenSigners \in 0..MaxValidators :
       M2Call(r, randomizes, lenSigners)
  \/ M2Seed
  \/ M2Step
  \/ M2Return
  \/ OtherRand

\* another goroutine seeds the package-level generator from the clock and draws
\* from it while GenM2FromRandomize is between its rand.Seed and its return
OtherRandRacing ==
  /\ m2.pc = "loop"
  /\ \E x \in RngStates \ {rng} : rng' = x
  /\ UNCHANGED <<m2, m2Out, notM2>>

M2RaceNext ==
  \/ \E r \in M2Runs, randomizes \in RandomizeLists, lenSigners \in 0..MaxValidators :
       M2Call(r, randomizes, lenSigners)
  \/ M2Seed
  \/ M2Step
  \/ M2Return
  \/ OtherRand
  \/ OtherRandRacing

\* the shuffle at rest
M2Idle ==
  /\ rng = 0
  /\ m2 = NoM2
  /\ m2Out = [r \in M2Runs |-> [NoM2Out EXCEPT !.done = TRUE]]

(***************************************************************************)
(* The builders and the readers of what they built: CreateTxSign and the   *)
(* hash GetRewardForCheckpoint takes from a sign transaction,              *)
(* BuildValidatorFromM2 and DecodeValidatorsHexData, Encrypt and Decrypt.  *)
(* A byte string is a sequence of numbers.                                 *)
(***************************************************************************)
\* the width of a word of call data: the 32 of CreateTxSign and of
\* tx.Data()[len(tx.Data())-32:]
WordLength == 32

\* n zero bytes
Zeros(n) == [k \in 1..n |-> 0]

\* common.LeftPadBytes(slice, l): the slice itself when it is already l long
LeftPadBytes(slice, l) ==
  IF l <= Len(slice) THEN slice ELSE Zeros(l - Len(slice)) \o slice

\* big.Int.Bytes(): the big-endian bytes of the absolute value, none for zero
RECURSIVE BigBytes(_)
BigBytes(n) == IF n = 0 THEN <<>> ELSE Append(BigBytes(n \div 256), n % 256)

\* common.Hex2Bytes(common.HexSignMethod)
HexSignMethod == <<227, 65, 234, 164>>

\* call data that names the hash before the number
TxSignDataHashFirst(blockNumber, blockHash) ==
  HexSignMethod \o LeftPadBytes(blockHash, WordLength)
                \o LeftPadBytes(BigBytes(blockNumber), WordLength)

\* inputData of CreateTxSign
TxSignData(blockNumber, blockHash) ==
  HexSignMethod \o LeftPadBytes(BigBytes(blockNumber), WordLength)
                \o LeftPadBytes(blockHash, WordLength)

\* types.NewTransaction(nonce, blockSigner, big.NewInt(0), 200000, big.NewInt(0), inputData)
CreateTxSign(blockNumber, blockHash, nonce, blockSigner) ==
  [ nonce |-> nonce, to |-> blockSigner, amount |-> 0, gasLimit |-> 200000,
    gasPrice |-> 0, data |-> TxSignData(blockNumber, blockHash) ]

\* common.BytesToHash(b): the last 32 bytes of b, right-aligned in a zero hash
BytesToHash(b) ==
  LeftPadBytes(IF Len(b) > WordLength
               THEN SubSeq(b, Len(b) - WordLength + 1, Len(b)) ELSE b,
               WordLength)

\* blkHash := common.BytesToHash(tx.Data()[len(tx.Data())-32:])
TxBlkHash(tx) ==
  BytesToHash(SubSeq(tx.data, Len(tx.data) - WordLength + 1, Len(tx.data)))

\* the block numbers a sign transaction is built for
SignBlockNumbers == {0, 1, 255, 256, 65537}

\* block hashes: all zero, leading zeros, all ones, all different
SignBlockHashes ==
  { Zeros(WordLength),
    [k \in 1..WordLength |-> IF k = WordLength THEN 1 ELSE 0],
    [k \in 1..WordLength |-> 255],
    [k \in 1..WordLength |-> k] }

\* no run
NoCodec == [op |-> "off", pc |-> "out"]

\* the arguments of one CreateTxSign
SignInputs ==
  { [ op |-> "sign", pc |-> "in", blockNumber |-> n, blockHash |-> h,
      nonce |-> nonce, blockSigner |-> "blockSigner" ] :
    n \in SignBlockNumbers, h \in SignBlockHashes, nonce \in 0..MaxNonce }

\* tx := CreateTxSign(blockNumber, blockHash, nonce, blockSigner)
RunCreateTxSign ==
  /\ codec.op = "sign"
  /\ codec.pc = "in"
  /\ codec' = [ op |-> "sign", pc |-> "mid", blockNumber |-> codec.blockNumber,
                blockHash |-> codec.blockHash,
                tx |-> CreateTxSign(codec.blockNumber, codec.blockHash,
                                    codec.nonce, codec.blockSigner) ]
  /\ UNCHANGED notCodec

\* GetRewardForCheckpoint reads the hash of the signed block from the transaction
RunTxBlkHash ==
  /\ codec.op = "sign"
  /\ codec.pc = "mid"
  /\ codec' = [ op |-> "sign", pc |-> "out", blockNumber |-> codec.blockNumber,
                blockHash |-> codec.blockHash, tx |-> codec.tx,
                blkHash |-> TxBlkHash(codec.tx) ]
  /\ UNCHANGED notCodec

\* utils.M2ByteLength, the fixed width of one encoded index
M2ByteLength == 4

\* fmt.Sprintf("%d", n) as bytes: the decimal digits, after a '-' when n < 0
RECURSIVE Sprintf(_)
Sprintf(n) ==
  IF n < 0 THEN <<45>> \o Sprintf(0 - n)
  ELSE IF n < 10 THEN <<48 + n>>
  ELSE Append(Sprintf(n \div 10), 48 + (n % 10))

\* one index written without padding
M2ByteBare(numberM2) == Sprintf(numberM2)

\* m2Byte := common.LeftPadBytes([]byte(fmt.Sprintf("%d", numberM2)), utils.M2ByteLength)
M2Byte(numberM2) == LeftPadBytes(Sprintf(numberM2), M2ByteLength)

\* for _, numberM2 := range listM2 { validatorBytes = append(validatorBytes, m2Byte...) }
RECURSIVE BuildValidatorFromM2(_)
BuildValidatorFromM2(listM2) ==
  IF listM2 = <<>> THEN <<>>
  ELSE M2Byte(Head(listM2)) \o BuildValidatorFromM2(Tail(listM2))

\* the bytes of a chunk without the padding zero bytes at its ends
RECURSIVE TrimZeros(_)
TrimZeros(b) ==
  IF b = <<>> THEN b
  ELSE IF Head(b) = 0 THEN TrimZeros(Tail(b))
  ELSE IF b[Len(b)] = 0 THEN TrimZeros(SubSeq(b, 1, Len(b) - 1))
  ELSE b

\* whether a byte string is a decimal number: digits only, at least one
IsDigits(b) == b /= <<>> /\ \A k \in 1..Len(b) : b[k] \in 48..57

\* the number a string of decimal digits stands for
RECURSIVE ParseDigits(_)
ParseDigits(b) ==
  IF b = <<>> THEN 0
  ELSE 10 * ParseDigits(SubSeq(b, 1, Len(b) - 1)) + (b[Len(b)] - 48)

\* chunk i (from 0) of the fixed-width chunking
M2Chunk(b, i) == SubSeq(b, i * M2ByteLength + 1, (i + 1) * M2ByteLength)

\* utils.ExtractValidatorsFromBytes: one index per whole chunk, nothing at all
\* when a chunk is not a number
ExtractValidatorsFromBytes(byteValidators) ==
  LET lenValidator == Len(byteValidators) \div M2ByteLength
      chunks == [i \in 1..lenValidator |-> TrimZeros(M2Chunk(byteValidators, i - 1))]
  IN IF \A i \in 1..lenValidator : IsDigits(chunks[i])
     THEN [i \in 1..lenValidator |-> ParseDigits(chunks[i])]
     ELSE <<>>

\* how many indexes a list has at most
MaxM2 == 2

\* indexes: one to four digits, and one that needs five
M2Values == {0, 7, 42, 9999, 12345}

RECURSIVE SeqsUpTo(_, _)
SeqsUpTo(S, n) ==
  IF n = 0 THEN {<<>>}
  ELSE LET shorter == SeqsUpTo(S, n - 1)
       IN shorter \cup {Append(q, x) : q \in shorter, x \in S}

\* the argument of one BuildValidatorFromM2
M2Inputs ==
  { [op |-> "m2", pc |-> "in", listM2 |-> l] : l \in SeqsUpTo(M2Values, MaxM2) }

\* validatorBytes := BuildValidatorFromM2(listM2)
RunBuildValidatorFromM2 ==
  /\ codec.op = "m2"
  /\ codec.pc = "in"
  /\ codec' = [ op |-> "m2", pc |-> "mid", listM2 |-> codec.listM2,
                validatorBytes |-> BuildValidatorFromM2(codec.listM2) ]
  /\ UNCHANGED notCodec

\* utils.ExtractValidatorsFromBytes(validatorsByte), the decoding that
\* DecodeValidatorsHexData does once hexutil.Decode gave it the bytes
RunDecodeValidators ==
  /\ codec.op = "m2"
  /\ codec.pc = "mid"
  /\ codec' = [ op |-> "m2", pc |-> "out", listM2 |-> codec.listM2,
                validatorBytes |-> codec.validatorBytes,
                validators |-> ExtractValidatorsFromBytes(codec.validatorBytes) ]
  /\ UNCHANGED notCodec

(***************************************************************************)
(* Encrypt and Decrypt at a small scale: a byte has ByteWidth bits, a      *)
(* block of the cipher has BlockSize bytes, and a character of the base64  *)
(* alphabet stands for CharWidth bits, so that three bytes fill four       *)
(* characters as they do in base64.  A string is the sequence of its       *)
(* bytes, which is what []byte(text) and fmt.Sprintf("%s", b) go between.  *)
(***************************************************************************)
\* aes.BlockSize
BlockSize == 2

\* the bits of a byte
ByteWidth == 4

\* the bits one character of base64.URLEncoding carries
CharWidth == 3

RECURSIVE Pow2(_)
Pow2(n) == IF n = 0 THEN 1 ELSE 2 * Pow2(n - 1)

\* the w bits of v, the highest first
ToBits(v, w) == [k \in 1..w |-> (v \div Pow2(w - k)) % 2]

\* the number a bit string stands for
RECURSIVE BitsValue(_)
BitsValue(bits) ==
  IF bits = <<>> THEN 0
  ELSE 2 * BitsValue(SubSeq(bits, 1, Len(bits) - 1)) + bits[Len(bits)]

\* the bits of a string of w-bit values
RECURSIVE BitsOf(_, _)
BitsOf(s, w) == IF s = <<>> THEN <<>> ELSE ToBits(Head(s), w) \o BitsOf(Tail(s), w)

\* the whole w-bit values in a bit string
Group(bits, w) ==
  [i \in 1..(Len(bits) \div w) |-> BitsValue(SubSeq(bits, (i - 1) * w + 1, i * w))]

\* dst[i] = src[i] ^ keystream[i]
Xor(a, b) ==
  BitsValue([k \in 1..ByteWidth |-> (ToBits(a, ByteWidth)[k] + ToBits(b, ByteWidth)[k]) % 2])

\* the alphabet of base64.URLEncoding, and its padding character
B64Alphabet == <<"A", "B", "C", "D", "E", "F", "G", "H">>

B64Pad == "="

\* base64.URLEncoding.EncodeToString(src): the bits of src cut into characters,
\* the last one filled with zero bits, padded to a multiple of four characters
EncodeToString(src) ==
  LET bits == BitsOf(src, ByteWidth)
      filled == bits \o Zeros((CharWidth - (Len(bits) % CharWidth)) % CharWidth)
      chars == Group(filled, CharWidth)
      n == Len(chars)
  IN [k \in 1..n |-> B64Alphabet[chars[k] + 1]] \o
     [k \in 1..((4 - (n % 4)) % 4) |-> B64Pad]

\* how many characters of the alphabet a string starts with
RECURSIVE B64Prefix(_)
B64Prefix(s) ==
  IF s = <<>> THEN 0
  ELSE IF \E i \in 1..Len(B64Alphabet) : B64Alphabet[i] = Head(s)
       THEN 1 + B64Prefix(Tail(s))
       ELSE 0

\* ciphertext, _ := base64.URLEncoding.DecodeString(cryptoText): the bytes
\* decoded before the padding or a character that is not of the alphabet
DecodeString(s) ==
  LET n == B64Prefix(s)
      chars == [k \in 1..n |->
                  (CHOOSE i \in 1..Len(B64Alphabet) : B64Alphabet[i] = s[k]) - 1]
  IN Group(BitsOf(chars, CharWidth), ByteWidth)

\* aes.NewCipher(key) returns an error unless the key has 16, 24 or 32 bytes
NewCipherOk(key) == key.len \in {16, 24, 32}

\* block.Encrypt: a permutation of the blocks chosen by the key
EncryptBlock(key, b) ==
  LET w == ByteWidth * BlockSize
      x == BitsValue(BitsOf(b, ByteWidth))
  IN Group(ToBits((5 * x + 17 * key.id + 3) % Pow2(w), w), ByteWidth)

\* XORKeyStream of cipher.NewCFBEncrypter(block, iv): the key stream of a
\* block is the encryption of the ciphertext block before it
RECURSIVE CFBEncrypt(_, _, _)
CFBEncrypt(key, prev, src) ==
  IF src = <<>> THEN <<>>
  ELSE LET n == IF Len(src) < BlockSize THEN Len(src) ELSE BlockSize
           ks == EncryptBlock(key, prev)
           dst == [k \in 1..n |-> Xor(src[k], ks[k])]
       IN dst \o CFBEncrypt(key, dst, SubSeq(src, n + 1, Len(src)))

\* a decrypter that feeds its output back, as the encrypter does
RECURSIVE CFBDecryptFeedPlain(_, _, _)
CFBDecryptFeedPlain(key, prev, src) ==
  IF src = <<>> THEN <<>>
  ELSE LET n == IF Len(src) < BlockSize THEN Len(src) ELSE BlockSize
           ks == EncryptBlock(key, prev)
           dst == [k \in 1..n |-> Xor(src[k], ks[k])]
       IN dst \o CFBDecryptFeedPlain(key, dst, SubSeq(src, n + 1, Len(src)))

\* XORKeyStream of cipher.NewCFBDecrypter(block, iv): the key stream of a
\* block is the encryption of the ciphertext block before it
RECURSIVE CFBDecrypt(_, _, _)
CFBDecrypt(key, prev, src) ==
  IF src = <<>> THEN <<>>
  ELSE LET n == IF Len(src) < BlockSize THEN Len(src) ELSE BlockSize
           ks == EncryptBlock(key, prev)
           dst == [k \in 1..n |-> Xor(src[k], ks[k])]
       IN dst \o CFBDecrypt(key, SubSeq(src, 1, n), SubSeq(src, n + 1, Len(src)))

\* Encrypt(key, text); draw is what io.ReadFull(cryptoRand.Reader, iv) did
Encrypt(key, text, draw) ==
  IF ~NewCipherOk(key) THEN <<>>
  ELSE IF ~draw.ok THEN <<>>
  ELSE EncodeToString(draw.iv \o CFBEncrypt(key, draw.iv, text))

\* Decrypt(key, cryptoText)
Decrypt(key, cryptoText) ==
  LET ciphertext == DecodeString(cryptoText)
  IN IF ~NewCipherOk(key) THEN <<>>
     ELSE IF Len(ciphertext) < BlockSize THEN <<>>
     ELSE CFBDecrypt(key, SubSeq(ciphertext, 1, BlockSize),
                     SubSeq(ciphertext, BlockSize + 1, Len(ciphertext)))

\* how many bytes a text has at most
MaxText == 3

TextBytes == {0, 6, 15}

\* keys of 16 and 32 bytes, and one aes.NewCipher rejects
CipherKeys == { [len |-> 16, id |-> 1], [len |-> 32, id |-> 2], [len |-> 5, id |-> 1] }

\* what the random source may do: fill the vector, or fail
Draws ==
  { [ok |-> TRUE, iv |-> iv] : iv \in [1..BlockSize -> {0, 11}] } \cup
  { [ok |-> FALSE, iv |-> Zeros(BlockSize)] }

\* the arguments of one Encrypt
CryptInputs ==
  { [op |-> "crypt", pc |-> "in", key |-> key, text |-> text] :
    key \in CipherKeys, text \in SeqsUpTo(TextBytes, MaxText) }

\* cryptoText := Encrypt(key, text)
RunEncrypt ==
  /\ codec.op = "crypt"
  /\ codec.pc = "in"
  /\ \E draw \in Draws :
       codec' = [ op |-> "crypt", pc |-> "mid", key |-> codec.key,
                  text |-> codec.text, draw |-> draw,
                  cryptoText |-> Encrypt(codec.key, codec.text, draw) ]
  /\ UNCHANGED notCodec

\* Decrypt(key, cryptoText) with the same key
RunDecrypt ==
  /\ codec.op = "crypt"
  /\ codec.pc = "mid"
  /\ codec' = [ op |-> "crypt", pc |-> "out", key |-> codec.key,
                text |-> codec.text, draw |-> codec.draw,
                cryptoText |-> codec.cryptoText,
                plain |-> Decrypt(codec.key, codec.cryptoText) ]
  /\ UNCHANGED notCodec

(***************************************************************************)
(* DecryptRandomizeFromSecretsAndOpening, at the scale of Encrypt and      *)
(* Decrypt: the bytes of "0123456789" are DecimalBytes, those of "-" and   *)
(* "+" are SignBytes, and a secret word has sizeOfArray characters, which  *)
(* is the vector and four bytes of text in base64 (32 characters hold the  *)
(* vector and eight bytes of text in the program).                         *)
(***************************************************************************)
DecimalBytes == <<1, 2, 3, 4, 5, 6, 7, 8, 9, 10>>

SignBytes == <<11, 12>>

\* sizeOfArray := int64(32)
sizeOfArray == 8

\* the zero byte that pads a word
Nul == "NUL"

\* new(big.Int).SetInt64(secret).String()
RECURSIVE IntString(_)
IntString(n) ==
  IF n < 0 THEN <<SignBytes[1]>> \o IntString(0 - n)
  ELSE IF n < 10 THEN <<DecimalBytes[n + 1]>>
  ELSE Append(IntString(n \div 10), DecimalBytes[(n % 10) + 1])

\* the digits of a string, as a number
RECURSIVE DigitsValue(_)
DigitsValue(s) ==
  IF s = <<>> THEN 0
  ELSE 10 * DigitsValue(SubSeq(s, 1, Len(s) - 1)) +
       ((CHOOSE d \in 1..Len(DecimalBytes) : DecimalBytes[d] = s[Len(s)]) - 1)

\* strconv.Atoi(s): an optional sign, then digits, at least one
Atoi(s) ==
  LET signed == s /= <<>> /\ \E k \in 1..Len(SignBytes) : SignBytes[k] = s[1]
      digits == IF signed THEN Tail(s) ELSE s
      ok == /\ digits /= <<>>
            /\ \A k \in 1..Len(digits) :
                 \E d \in 1..Len(DecimalBytes) : DecimalBytes[d] = digits[k]
  IN IF ~ok THEN [ok |-> FALSE, val |-> 0]
     ELSE [ ok |-> TRUE,
            val |-> IF signed /\ s[1] = SignBytes[1]
                    THEN 0 - DigitsValue(digits) ELSE DigitsValue(digits) ]

\* a check that lets every string through
isIntAlways(strNumber) == TRUE

\* isInt(strNumber): strconv.Atoi gave no error
isInt(strNumber) == Atoi(strNumber).ok

\* common.LeftPadBytes([]byte(encryptSecret), int(sizeOfArray))
SecretWord(encryptSecret) ==
  IF sizeOfArray <= Len(encryptSecret) THEN encryptSecret
  ELSE [k \in 1..(sizeOfArray - Len(encryptSecret)) |-> Nul] \o encryptSecret

\* bytes.TrimLeft(secret[:], "\x00")
RECURSIVE TrimLeft(_)
TrimLeft(secret) ==
  IF secret /= <<>> /\ Head(secret) = Nul THEN TrimLeft(Tail(secret)) ELSE secret

\* decryptSecret := Decrypt(opening[:], string(trimSecret))
DecryptSecret(secret, opening) == Decrypt(opening, TrimLeft(secret))

\* the loop of DecryptRandomizeFromSecretsAndOpening from secret k on, with
\* random as it is before that turn
RECURSIVE DecryptLoop(_, _, _, _)
DecryptLoop(secrets, opening, k, random) ==
  IF k > Len(secrets) THEN [random |-> random, err |-> "nil"]
  ELSE LET decryptSecret == DecryptSecret(secrets[k], opening)
       IN IF isInt(decryptSecret)
          THEN IF ~Atoi(decryptSecret).ok
               THEN [random |-> 0 - 1, err |-> "errAtoi"]
               ELSE DecryptLoop(secrets, opening, k + 1, Atoi(decryptSecret).val)
          ELSE DecryptLoop(secrets, opening, k + 1, random)

\* DecryptRandomizeFromSecretsAndOpening(secrets, opening)
DecryptRandomizeFromSecretsAndOpening(secrets, opening) ==
  DecryptLoop(secrets, opening, 1, 0)

\* the openings: keys of 32 bytes
OpeningKeys == { [len |-> 32, id |-> 2], [len |-> 32, id |-> 3] }

\* one drawn vector, and the failed draw
SecretDraws == { [ok |-> TRUE, iv |-> [k \in 1..BlockSize |-> 11]],
                 [ok |-> FALSE, iv |-> Zeros(BlockSize)] }

\* what was encrypted: numbers, a text that is no number, the empty text
SecretTexts == { IntString(7), IntString(0 - 3), IntString(1234), <<13>>, <<>> }

\* the secret words the contract may hold: encrypted texts, a word too short
\* to hold a vector, a word of zero bytes
SecretWords ==
  { SecretWord(Encrypt(key, text, draw)) :
      key \in OpeningKeys, text \in SecretTexts, draw \in SecretDraws } \cup
  { SecretWord(<<B64Alphabet[2], B64Alphabet[3]>>), SecretWord(<<>>) }

\* the arguments of one DecryptRandomizeFromSecretsAndOpening
RandInputs ==
  { [op |-> "rand", pc |-> "in", secrets |-> secrets, opening |-> opening] :
    secrets \in SeqsUpTo(SecretWords, MaxSecrets), opening \in OpeningKeys }

\* random, err := DecryptRandomizeFromSecretsAndOpening(secrets, opening)
RunDecryptRandomize ==
  /\ codec.op = "rand"
  /\ codec.pc = "in"
  /\ LET res == DecryptRandomizeFromSecretsAndOpening(codec.secrets, codec.opening)
     IN codec' = [ op |-> "rand", pc |-> "out", secrets |-> codec.secrets,
                   opening |-> codec.opening,
                   decrypted |-> [k \in 1..Len(codec.secrets) |->
                                    DecryptSecret(codec.secrets[k], codec.opening)],
                   random |-> res.random, err |-> res.err ]
  /\ UNCHANGED notCodec

(***************************************************************************)
(* BuildTxSecretRandomize and BuildTxOpeningRandomize, and the reading of  *)
(* what they carry: the first word of the secret array and the key after   *)
(* the selector.  A word has sizeOfArray bytes.                            *)
(***************************************************************************)
\* common.Hex2Bytes(common.HexSetSecret) and common.Hex2Bytes(common.HexSetOpening)
HexSetSecret == <<52, 211, 134, 0>>

HexSetOpening == <<230, 220, 225, 1>>

\* the bytes of a key
KeyBytes(key) == [k \in 1..key.len |-> key.id]

\* what the generator holds after rand.Seed(time.Now().UnixNano())
ClockDraws == {0, 7, 4321, 99999}

\* epocNumber: the epoch length
EpocNumbers == {1, 9, 900, 100000}

\* inputData of BuildTxSecretRandomize for the secrets []int64{secretNumb}
TxSecretData(secretNumb, randomizeKey, draw) ==
  LET arrSizeOfSecrets == LeftPadBytes(BigBytes(sizeOfArray), sizeOfArray)
      arrLengthOfSecrets == LeftPadBytes(BigBytes(1), sizeOfArray)
      encryptSecret == Encrypt(randomizeKey, IntString(secretNumb), draw)
  IN HexSetSecret \o arrSizeOfSecrets \o arrLengthOfSecrets \o SecretWord(encryptSecret)

\* BuildTxSecretRandomize(nonce, randomizeAddr, epocNumber, randomizeKey), with
\* the state of the generator after its rand.Seed and the draw of Encrypt
BuildTxSecretRandomize(nonce, randomizeAddr, epocNumber, randomizeKey, clock, draw) ==
  [ nonce |-> nonce, to |-> randomizeAddr, amount |-> 0, gasLimit |-> 200000,
    gasPrice |-> 0,
    data |-> TxSecretData(Intn(clock, epocNumber), randomizeKey, draw) ]

\* BuildTxOpeningRandomize(nonce, randomizeAddr, randomizeKey)
BuildTxOpeningRandomize(nonce, randomizeAddr, randomizeKey) ==
  [ nonce |-> nonce, to |-> randomizeAddr, amount |-> 0, gasLimit |-> 200000,
    gasPrice |-> 0, data |-> HexSetOpening \o KeyBytes(randomizeKey) ]

\* secrets [][32]byte: the words of the array a secret transaction carries
TxSecrets(tx) ==
  LET from == Len(HexSetSecret) + (2 * sizeOfArray)
  IN [k \in 1..((Len(tx.data) - from) \div sizeOfArray) |->
        SubSeq(tx.data, from + ((k - 1) * sizeOfArray) + 1, from + (k * sizeOfArray))]

\* an opening read from the first byte of the call data
TxOpeningFromStart(tx) ==
  LET bytes == SubSeq(tx.data, 1, Len(tx.data) - Len(HexSetOpening))
  IN [len |-> Len(bytes), id |-> bytes[1]]

\* opening [32]byte: the key an opening transaction carries after the selector
TxOpening(tx) ==
  LET bytes == SubSeq(tx.data, Len(HexSetOpening) + 1, Len(tx.data))
  IN [len |-> Len(bytes), id |-> bytes[1]]

\* the arguments of one commit
CommitInputs ==
  { [ op |-> "commit", pc |-> "in", nonce |-> nonce, epocNumber |-> e,
      randomizeKey |-> key ] :
    nonce \in 0..MaxNonce, e \in EpocNumbers, key \in OpeningKeys }

\* tx := BuildTxSecretRandomize(nonce, randomizeAddr, epocNumber, randomizeKey)
RunBuildTxSecretRandomize ==
  /\ codec.op = "commit"
  /\ codec.pc = "in"
  /\ \E clock \in ClockDraws, draw \in Draws :
       codec' = [ op |-> "commit", pc |-> "secret", nonce |-> codec.nonce,
                  epocNumber |-> codec.epocNumber, randomizeKey |-> codec.randomizeKey,
                  secretNumb |-> Intn(clock, codec.epocNumber), draw |-> draw,
                  secretTx |-> BuildTxSecretRandomize(codec.nonce, "randomize",
                                 codec.epocNumber, codec.randomizeKey, clock, draw) ]
  /\ UNCHANGED notCodec

\* tx := BuildTxOpeningRandomize(nonce, randomizeAddr, randomizeKey), later
\* in the epoch and with the key of the commit
RunBuildTxOpeningRandomize ==
  /\ codec.op = "commit"
  /\ codec.pc = "secret"
  /\ codec' = [ op |-> "commit", pc |-> "opening", nonce |-> codec.nonce,
                epocNumber |-> codec.epocNumber, randomizeKey |-> codec.randomizeKey,
                secretNumb |-> codec.secretNumb, draw |-> codec.draw,
                secretTx |-> codec.secretTx,
                openingTx |-> BuildTxOpeningRandomize(codec.nonce + 1, "randomize",
                                                      codec.randomizeKey) ]
  /\ UNCHANGED notCodec

\* DecryptRandomizeFromSecretsAndOpening(secrets, opening) on what the two
\* transactions carried
RunReveal ==
  /\ codec.op = "commit"
  /\ codec.pc = "opening"
  /\ LET res == DecryptRandomizeFromSecretsAndOpening(
                  <<TxSecrets(codec.secretTx)[1]>>, TxOpening(codec.openingTx))
     IN codec' = [ op |-> "commit", pc |-> "out", nonce |-> codec.nonce,
                   epocNumber |-> codec.epocNumber, randomizeKey |-> codec.randomizeKey,
                   secretNumb |-> codec.secretNumb, draw |-> codec.draw,
                   secretTx |-> codec.secretTx, openingTx |-> codec.openingTx,
                   random |-> res.random, err |-> res.err ]
  /\ UNCHANGED notCodec

CodecInit ==
  codec \in SignInputs \cup M2Inputs \cup CryptInputs \cup RandInputs \cup CommitInputs

CodecNext ==
  \/ RunCreateTxSign
  \/ RunTxBlkHash
  \/ RunBuildValidatorFromM2
  \/ RunDecodeValidators
  \/ RunEncrypt
  \/ RunDecrypt
  \/ RunDecryptRandomize
  \/ RunBuildTxSecretRandomize
  \/ RunBuildTxOpeningRandomize
  \/ RunReveal

\* the builders at rest
CodecIdle == codec = NoCodec

(***************************************************************************)
(* Specifications.                                                         *)
(***************************************************************************)
Init == TxInit /\ RewardIdle /\ BalancesIdle /\ M2Idle /\ CodecIdle

Next == TxNext

\* concurrent callers of CreateTransactionSign
Spec == Init /\ [][Next]_vars

InitReward == TxIdle /\ RewardInit /\ BalancesIdle /\ M2Idle /\ CodecIdle

\* a checkpoint: the chain is filled, tallied, and the signers are rewarded
SpecReward == InitReward /\ [][RewardNext]_vars

InitCalc == TxIdle /\ CalcInit /\ BalancesIdle /\ M2Idle /\ CodecIdle

CalcNext == RunCalc

\* CalculateRewardForSigner on any signer map and any counter
SpecCalc == InitCalc /\ [][CalcNext]_vars

InitBalances == TxIdle /\ RewardIdle /\ BalancesInit /\ M2Idle /\ CodecIdle

\* GetRewardBalancesRate on any masternode, voter list and reward
SpecBalances == InitBalances /\ [][BalancesNext]_vars

InitM2 == TxIdle /\ RewardIdle /\ BalancesIdle /\ M2Init /\ CodecIdle

\* two invocations of GenM2FromRandomize, one after the other, with the other
\* users of the generator running before and between them
SpecM2 == InitM2 /\ [][M2Next]_vars

InitEpoch == EpochInit /\ RewardIdle /\ BalancesIdle /\ M2Idle /\ CodecIdle

\* one call of CreateTransactionSign per block of an epoch, in increasing
\* order; a call that can take a step takes it (no statement blocks once the
\* lock is held, and the path calls for every block it processes)
SpecEpoch == InitEpoch /\ [][EpochNext]_vars /\ WF_vars(EpochNext)

InitWalk == TxIdle /\ WalkInit /\ BalancesIdle /\ M2Idle /\ CodecIdle

\* the loops of GetRewardForCheckpoint for any header number and rCheckpoint
SpecWalk == InitWalk /\ [][WalkNext]_vars

InitOrder == InitReward \/ InitBalances

OrderNext ==
  \/ \E j \in ChainBlocks(rwCfg), from \in Addrs, ref \in RefHashes(rwCfg) :
       AddSignTx(j, from, ref)
  \/ RunTally
  \/ \E i \in ChainBlocks(rwCfg) \cup {prevCheckpoint(rwCfg)} : RunTallyMissing(i)
  \/ RunCalc
  \/ RunBalances

\* the three reward functions, each on its inputs
SpecOrder == InitOrder /\ [][OrderNext]_vars

\* the same two invocations, with the other users of the generator also running
\* during them
SpecM2Race == InitM2 /\ [][M2RaceNext]_vars

InitCodec == TxIdle /\ RewardIdle /\ BalancesIdle /\ M2Idle /\ CodecInit

\* one builder run on any arguments, then the reader run on what it built
SpecCodec == InitCodec /\ [][CodecNext]_vars

(***************************************************************************)
(* Claims about CreateTransactionSign, checked under Spec.                 *)
(***************************************************************************)
InBody(p) == call[p].pc \notin {"idle", "lock"}

\* C1: one call offers the sign transaction to the pool at most 10 times; when
\* all 10 attempts fail the call returns the error of the last attempt, builds
\* and submits no secret or opening transaction and does not touch the key.
C1_RetryBound ==
  \A p \in Callers :
    /\ call[p].signAdds <= 10
    /\ call[p].signFails = 10 =>
         /\ call[p].pc = "ret"
         /\ call[p].ret \in PoolErrs
         /\ call[p].ret = call[p].lastErr
         /\ ~call[p].secretBuilt /\ ~call[p].secretSub
         /\ ~call[p].openBuilt /\ ~call[p].openSub
         /\ call[p].keyOps = {}

C1_Witness ==
  \E p \in Callers :
    call[p].pc = "ret" /\ call[p].signFails = 10 /\ call[p].ret = "errPool"

\* C2: the lock is held for the whole body: at most one invocation is between
\* the account lookup and its return, exactly the invocations in the body hold
\* the lock, and a caller that has returned (by any path) holds it no more.
C2_LockHeld ==
  /\ Cardinality({p \in Callers : InBody(p)}) <= 1
  /\ \A p \in Callers : InBody(p) <=> p \in TxSignMu

C2_Witness ==
  \E p, q \in Callers :
    /\ call[p].pc = "lock"
    /\ call[q].pc = "ret" /\ call[q].ret \in PoolErrs /\ call[q].secretBuilt

\* C3: one call never submits both a secret-commit and an opening transaction.
C3_NotBoth ==
  \A p \in Callers : ~(call[p].secretSub /\ call[p].openSub)

C3_Witness ==
  \E p \in Callers :
    call[p].pc = "ret" /\ call[p].secretSub /\ "put" \in call[p].keyOps

\* C4: a secret-commit transaction is submitted and a key is written only
\* while no key is stored; a stored key is never replaced, only deleted.
C4_CommitOnlyWhenEmpty ==
  [][ /\ (dbKey # NoKey /\ dbKey' # dbKey) => dbKey' = NoKey
      /\ \A p \in Callers :
           /\ (call'[p].secretSub /\ ~call[p].secretSub) => dbKey = NoKey
           /\ ("put" \in call'[p].keyOps /\ "put" \notin call[p].keyOps)
                => dbKey = NoKey ]_vars

\* a call in the commit window that found the earlier call's key and left it
C4_Witness ==
  \E p \in Callers :
    /\ call[p].pc = "ret" /\ call[p].exist /\ ~call[p].secretBuilt
    /\ checkNumber(p) > 0
    /\ cfg.Secret <= checkNumber(p) /\ checkNumber(p) < cfg.Opening
    /\ dbKey = "k2"
    /\ \E i \in 1..Len(pool) : pool[i].kind = "secret" /\ pool[i].key = "k2"

(***************************************************************************)
(* Claims about the reward computation.                                    *)
(***************************************************************************)
RECURSIVE SumOver(_, _)
SumOver(f, S) ==
  IF S = {} THEN 0
  ELSE LET x == CHOOSE y \in S : TRUE IN f[x] + SumOver(f, S \ {x})

SumMap(f) == SumOver(f, DOMAIN f)

SumSign(sg) == SumOver([a \in DOMAIN sg |-> sg[a].Sign], DOMAIN sg)

\* window blocks for which address a is to be credited, stated from the chain
CreditedBlocks(a) ==
  LET prev == rwCfg.number - 2 * rwCfg.r
  IN { i \in (prev + 1)..(prev + rwCfg.r) :
         /\ \/ i % rwCfg.epoch < rwCfg.merge
            \/ i % rwCfg.merge = 0
            \/ i < rwCfg.tip2019
         /\ \E k \in 1..Len(rwCfg.masternodes) : rwCfg.masternodes[k] = a
         /\ \E j \in (prev + 1)..(rwCfg.number - 1) :
              \E k \in 1..Len(chainTx[j]) :
                chainTx[j][k].from = a /\ chainTx[j][k].ref = HashOf(i) }

\* C5: the sign count of every address equals the number of eligible window
\* blocks for which it is a masternode of the header at prevCheckpoint and has
\* sent a sign transaction, contained in an ancestor block above
\* prevCheckpoint, that ends with the block's hash; other addresses are absent.
C5_Tally ==
  rwPc \in {"tallied", "rewarded"} =>
    \A a \in Addrs :
      /\ a \in DOMAIN signers <=> CreditedBlocks(a) # {}
      /\ a \in DOMAIN signers => signers[a].Sign = Cardinality(CreditedBlocks(a))

\* a is credited once for block 4 by a transaction that block 5 contains, and
\* its transaction for the block after the window counts for nothing
C5_Witness ==
  /\ rwPc = "tallied"
  /\ rwCfg.number = 6 /\ rwCfg.masternodes = <<"a", "b">>
  /\ chainTx[5] = << [from |-> "a", ref |-> HashOf(4)], [from |-> "a", ref |-> HashOf(5)] >>
  /\ DOMAIN signers = {"a"} /\ signers["a"].Sign = 1

\* C6: with totalSigner > 0 every signer gets floor(chainReward / totalSigner)
\* times its sign count, in the result and in its Reward field, and the sign
\* counts stay; with totalSigner = 0 the result is empty, nothing is divided
\* and the signer map stays as it was. No error is returned.
C6_SignerReward ==
  [][ (rwPc = "tallied" /\ rwPc' = "rewarded") =>
        /\ calc'.err = "nil"
        /\ DOMAIN signers' = DOMAIN signers
        /\ \A s \in DOMAIN signers : signers'[s].Sign = signers[s].Sign
        /\ totalSigner > 0 =>
             /\ DOMAIN calc'.result = DOMAIN signers
             /\ \A s \in DOMAIN signers :
                  /\ calc'.result[s] =
                       (calc'.chainReward \div totalSigner) * signers[s].Sign
                  /\ signers'[s].Reward = calc'.result[s]
        /\ totalSigner = 0 =>
             /\ calc'.result = EmptyMap
             /\ calc'.divs = 0
             /\ signers' = signers ]_vars

\* chainReward 1000, totalSigner 3, one signer with count 3: reward 999
C6_Witness ==
  /\ rwPc = "rewarded"
  /\ calc.chainReward = 1000 /\ totalSigner = 3
  /\ DOMAIN signers = {"a"} /\ signers["a"].Sign = 3
  /\ calc.result["a"] = 999 /\ signers["a"].Reward = 999

\* C7: after GetRewardForCheckpoint and CalculateRewardForSigner, when the
\* sign counts sum to totalSigner > 0, the rewards sum to chainReward less
\* chainReward mod totalSigner.
C7_Shortfall ==
  (rwPc = "rewarded" /\ totalSigner > 0 /\ SumSign(signers) = totalSigner) =>
    /\ SumMap(calc.result) <= calc.chainReward
    /\ calc.chainReward - SumMap(calc.result) = calc.chainReward % totalSigner

C7_Witness ==
  /\ rwPc = "rewarded"
  /\ totalSigner = 2 /\ SumSign(signers) = 2 /\ Cardinality(DOMAIN signers) = 2
  /\ calc.chainReward = 7 /\ SumMap(calc.result) = 6

\* C8: the entries of the returned balances sum to at most totalReward.
C8_BalancesBounded ==
  balPc = "out" => SumMap(balOut.balances) <= balIn.totalReward

\* before the upgrade block, a voter listed twice beside the masternode itself
C8_Witness ==
  /\ balPc = "out"
  /\ balIn.voterPercent = 40 /\ balIn.totalReward = 100 /\ balIn.blockNumber = 0
  /\ balIn.voters = <<"w", "m", "w">> /\ balIn.voterCap["w"] = 3
  /\ balIn.voterCap["m"] = 2
  /\ SumMap(balOut.balances) < 100
  /\ balOut.balances["w"] > 0

\* C9: the tier share is floor(totalReward * 50 / 100) when the stake cap is
\* exactly the threshold and floor(totalReward * 40 / 100) for every other cap,
\* smaller or larger.
C9_TierRule ==
  balPc = "out" =>
    /\ balIn.stakeCap = 50000 => balOut.reward = (balIn.totalReward * 50) \div 100
    /\ balIn.stakeCap # 50000 => balOut.reward = (balIn.totalReward * 40) \div 100
    /\ balIn.voters = <<>> => balOut.balances[balIn.masterAddr] = balOut.reward

C9_Witness ==
  /\ balPc = "out"
  /\ balIn.stakeCap = 50001 /\ balIn.totalReward = 100
  /\ balIn.voters = <<>> /\ balOut.balances["m"] = 40

\* C10: the tier share is credited to the owner of the masternode.
C10_OwnerCredited ==
  balPc = "out" =>
    /\ balIn.owner \in DOMAIN balOut.balances
    /\ balOut.balances[balIn.owner] >= balOut.reward

\* C11: the foundation wallet's entry of the returned balances is exactly
\* floor(totalReward * RewardFoundationPercent / 100), whoever the masternode
\* is, whatever its cap, its voters (the foundation wallet may be one of them)
\* and the block number.
C11_FoundationShare ==
  balPc = "out" =>
    /\ balIn.foundationWalletAddr \in DOMAIN balOut.balances
    /\ balOut.balances[balIn.foundationWalletAddr] =
         (balIn.totalReward * balIn.foundationPercent) \div 100

\* the foundation wallet is itself a voter with a positive cap and a voter share
C11_Witness ==
  /\ balPc = "out"
  /\ balIn.totalReward = 100 /\ balIn.voterPercent = 40
  /\ balIn.voters = <<"f">> /\ balIn.voterCap["f"] = 2
  /\ balOut.balances["f"] = 10

\* C12: when a header or block of the walk back from the checkpoint is
\* missing, GetRewardForCheckpoint returns an error and no signer map.
C12_MissingHeaderFails ==
  walk.missing # {} => (rwPc = "failed" /\ signers = EmptyMap)

\* C13: a call of CreateTransactionSign that returns an error, from the sign
\* step, the secret step or the opening step, has added no transaction to the
\* pool and has not changed the persisted key.
C13_NoPartialEffect ==
  \A p \in Callers :
    (call[p].pc = "ret" /\ call[p].ret \in PoolErrs \cup {SignErr, DbErr}) =>
      /\ call[p].signAdds = call[p].signFails
      /\ ~call[p].secretSub /\ ~call[p].openSub
      /\ call[p].keyOps \cap {"put", "delete"} = {}

\* the distinct sign transactions for block b that the pool holds
SignTxsFor(b) ==
  { pool[i] : i \in { i \in 1..Len(pool) : pool[i].kind = "sign" /\ pool[i].blk = b } }

\* C14: of two invocations that run concurrently for the same block, at most
\* one adds a sign transaction for that block to the pool.
C14_NoDoubleSign ==
  \A p \in Callers :
    (call[p].sameBlk /\ call[p].signAdds > call[p].signFails) =>
      Cardinality(SignTxsFor(call[p].blk)) <= 1

\* C15: the first sign transaction of a call carries the nonce read before the
\* loop, and every later one the nonce read after the failed submission just
\* before it: the transaction being built, signed or offered to the pool, and
\* the one the pool accepted, carry the nonce of the call's latest read.
C15_FreshNonce ==
  \A p \in Callers :
    /\ call[p].pc \in {"sign", "add"} => call[p].nonce = call[p].lastRead
    /\ call[p].pc = "haskey" =>
         /\ Len(pool) > 0
         /\ pool[Len(pool)] = SignTx(call[p].blk, call[p].lastRead)

\* the second attempt, after the pool's nonce moved from 0 to 1 and the first
\* submission failed
C15_Witness ==
  \E p \in Callers :
    /\ call[p].pc = "add" /\ call[p].retryCount = 2
    /\ call[p].signFails = 1 /\ call[p].lastErr = "errNonce"
    /\ call[p].lastRead = 1 /\ call[p].nonce = 1

\* C16: GenM2FromRandomize(randomizes, n) returns a sequence of length n in
\* which every index of [0, n) occurs exactly once, for every list of
\* randomizes; for n = 0 it is empty.
C16_Permutation ==
  \A r \in M2Runs :
    m2Out[r].done =>
      /\ Len(m2Out[r].out) = m2Out[r].lenSigners
      /\ { m2Out[r].out[k] : k \in 1..Len(m2Out[r].out) } = 0..(m2Out[r].lenSigners - 1)
      /\ m2Out[r].lenSigners = 0 => m2Out[r].out = <<>>

C16_Witness ==
  /\ m2Out[1].done /\ m2Out[1].lenSigners = 3
  /\ m2Out[1].out = <<1, 2, 0>>

\* C17: two invocations of GenM2FromRandomize with the same lenSigners and
\* lists of randomizes that have the same wrapped sum return the same sequence,
\* whatever calls of the other users of the generator ran before each of them.
C17_Deterministic ==
  (m2Out[1].done /\ m2Out[2].done
     /\ m2Out[1].lenSigners = m2Out[2].lenSigners
     /\ m2Out[1].total = m2Out[2].total) =>
    m2Out[1].out = m2Out[2].out

\* the lists <<3, 3>>, whose sum wraps around, and <<-2>>
C17_Witness ==
  /\ m2Out[1].done /\ m2Out[2].done
  /\ m2Out[1].lenSigners = 3 /\ m2Out[2].lenSigners = 3
  /\ m2Out[1].randomizes = <<3, 3>> /\ m2Out[2].randomizes = <<0 - 2>>
  /\ m2Out[1].total = 0 - 2 /\ m2Out[2].total = 0 - 2
  /\ m2Out[2].out # <<0, 1, 2>>

\* the sign transactions the ancestor blocks contain
ChainTxs(blocks) == UNION { { blocks[j][k] : k \in 1..Len(blocks[j]) } : j \in DOMAIN blocks }

\* C18: only masternodes of the header at prevCheckpoint are credited, and no
\* credited count exceeds rCheckpoint (one credit per window block at most);
\* one more sign transaction from a sender that is no masternode, or from a
\* sender that already has one for the same block, leaves the result as it was.
C18_MasternodesOnce ==
  [][ /\ rwPc' = "tallied" =>
           \A a \in DOMAIN signers' :
             /\ \E k \in 1..Len(rwCfg.masternodes) : rwCfg.masternodes[k] = a
             /\ signers'[a].Sign <= rwCfg.r
      /\ (rwPc = "build" /\ rwPc' = "build") =>
           \A tx \in ChainTxs(chainTx') :
             ( \/ tx \in ChainTxs(chainTx)
               \/ \A k \in 1..Len(rwCfg.masternodes) : rwCfg.masternodes[k] # tx.from ) =>
               \/ ChainTxs(chainTx') # ChainTxs(chainTx) \cup {tx}
               \/ GetRewardForCheckpoint(rwCfg, chainTx', totalSigner) =
                    GetRewardForCheckpoint(rwCfg, chainTx, totalSigner) ]_vars

\* a has two sign transactions for block 4 and counts once
C18_Witness ==
  /\ rwPc = "tallied"
  /\ rwCfg.number = 6 /\ rwCfg.masternodes = <<"a">>
  /\ chainTx[5] = << [from |-> "a", ref |-> HashOf(4)], [from |-> "a", ref |-> HashOf(4)] >>
  /\ chainTx[4] = <<>> /\ chainTx[3] = <<>>
  /\ DOMAIN signers = {"a"} /\ signers["a"].Sign = 1 /\ totalSigner \in {1, 2}

\* C19: GetRewardForCheckpoint raises the counter behind totalSigner by
\* exactly the sum of the sign counts it returns; every returned entry has a
\* sign count of at least 1 and the reward 0.
C19_TotalSigner ==
  [][ (rwPc = "build" /\ rwPc' = "tallied") =>
        /\ totalSigner' - totalSigner = SumSign(signers')
        /\ \A a \in DOMAIN signers' :
             signers'[a].Sign >= 1 /\ signers'[a].Reward = 0 ]_vars

\* the counter was 1 at the call; a is credited for blocks 3 and 4
C19_Witness ==
  /\ rwPc = "tallied"
  /\ rwCfg.number = 6 /\ rwCfg.tip2019 = 4
  /\ DOMAIN signers = {"a"} /\ signers["a"].Sign = 2 /\ signers["a"].Reward = 0
  /\ totalSigner = 3

\* the masternodes with a sign transaction for block i in the ancestor chain
SignedBy(i) ==
  { a \in Addrs :
      /\ \E k \in 1..Len(rwCfg.masternodes) : rwCfg.masternodes[k] = a
      /\ \E tx \in ChainTxs(chainTx) : tx.from = a /\ tx.ref = HashOf(i) }

\* block i is in the reward window and meets none of the three conditions
Barred(i) ==
  /\ i >= rwCfg.number - (2 * rwCfg.r) + 1
  /\ i <= rwCfg.number - rwCfg.r
  /\ i % rwCfg.epoch >= rwCfg.merge
  /\ i % rwCfg.merge # 0
  /\ rwCfg.tip2019 <= i

\* C20: a window block gives credit only when i mod Epoch < MergeSignRange, or
\* i mod MergeSignRange = 0, or TIP2019 is not active at i: the credits handed
\* out are one per masternode and such block it signed, and a sign transaction
\* for a block that meets none of the three changes nothing.
C20_EligibleOnly ==
  [][ /\ (rwPc = "build" /\ rwPc' = "tallied") =>
           totalSigner' - totalSigner =
             SumOver([i \in ChainBlocks(rwCfg) |-> Cardinality(SignedBy(i))],
                     { i \in ChainBlocks(rwCfg) :
                         i <= rwCfg.number - rwCfg.r /\ ~Barred(i) })
      /\ (rwPc = "build" /\ rwPc' = "build") =>
           \A tx \in ChainTxs(chainTx') :
             (\E i \in ChainBlocks(rwCfg) : Barred(i) /\ tx.ref = HashOf(i)) =>
               \/ ChainTxs(chainTx') # ChainTxs(chainTx) \cup {tx}
               \/ GetRewardForCheckpoint(rwCfg, chainTx', totalSigner) =
                    GetRewardForCheckpoint(rwCfg, chainTx, totalSigner) ]_vars

\* TIP2019 is active from block 0: block 3 (3 mod 4 = 3, 3 mod 2 = 1) is signed
\* by the masternode a and earns nothing, block 4 does
C20_Witness ==
  /\ rwPc = "tallied"
  /\ rwCfg.number = 6 /\ rwCfg.tip2019 = 0 /\ rwCfg.masternodes = <<"a">>
  /\ chainTx[5] = << [from |-> "a", ref |-> HashOf(3)], [from |-> "a", ref |-> HashOf(4)] >>
  /\ signers["a"].Sign = 1

\* the voters of the list
VoterSet(voters) == { voters[k] : k \in 1..Len(voters) }

\* the sum of the counted voter caps: every listed voter once from the upgrade
\* block on, every position of the list before it
CountedCap(in) ==
  IF in.tip2019 <= in.blockNumber
    THEN SumOver(in.voterCap, VoterSet(in.voters))
    ELSE SeqSum([k \in 1..Len(in.voters) |-> in.voterCap[in.voters[k]]])

\* C21: with V = floor(totalReward * RewardVoterPercent / 100) and totalCap the
\* sum of the counted voter caps, the voter loop credits every listed voter
\* with a positive cap floor(V * cap / totalCap) and nobody else; the credits
\* sum to at most V and are all 0 when RewardVoterPercent is 0. The credit is
\* the whole entry of a voter that is neither the masternode nor the
\* foundation wallet, and comes on top of the tier share of the masternode.
C21_VoterSplit ==
  balPc = "out" =>
    LET V == (balIn.totalReward * balIn.voterPercent) \div 100
        totalCap == CountedCap(balIn)
    IN /\ \A a \in VoterAddrs :
            /\ (a \in VoterSet(balIn.voters) /\ balIn.voterCap[a] > 0) =>
                 /\ a \in DOMAIN balOut.credits
                 /\ balOut.credits[a] = (V * balIn.voterCap[a]) \div totalCap
            /\ (a \notin VoterSet(balIn.voters) \/ balIn.voterCap[a] = 0) =>
                 a \notin DOMAIN balOut.credits
            /\ a \notin {balIn.masterAddr, balIn.foundationWalletAddr} =>
                 /\ a \in DOMAIN balOut.balances <=> a \in DOMAIN balOut.credits
                 /\ a \in DOMAIN balOut.credits => balOut.balances[a] = balOut.credits[a]
       /\ balOut.balances[balIn.masterAddr] =
            balOut.reward + (IF balIn.masterAddr \in DOMAIN balOut.credits
                               THEN balOut.credits[balIn.masterAddr] ELSE 0)
       /\ SumMap(balOut.credits) <= V
       /\ balIn.voterPercent = 0 => \A a \in DOMAIN balOut.credits : balOut.credits[a] = 0

\* V = 40 split over the caps 1 and 2
C21_Witness ==
  /\ balPc = "out"
  /\ balIn.totalReward = 100 /\ balIn.voterPercent = 40
  /\ balIn.voters = <<"v", "w">> /\ balIn.voterCap["v"] = 1 /\ balIn.voterCap["w"] = 2
  /\ balOut.credits["v"] = 13 /\ balOut.credits["w"] = 26
  /\ balOut.balances["w"] = 26

\* the list without the repetitions: the first occurrence of each voter stays
RECURSIVE Dedup(_)
Dedup(voters) ==
  IF voters = <<>> THEN <<>>
  ELSE LET front == Dedup(SubSeq(voters, 1, Len(voters) - 1))
           last == voters[Len(voters)]
       IN IF last \in VoterSet(front) THEN front ELSE Append(front, last)

\* C22: from the upgrade block on (blockNumber >= TIP2019Block) repeated
\* addresses in the voter list have no effect: the balances are those of the
\* list with the repetitions removed.
C22_DuplicateVoters ==
  (balPc = "out" /\ balIn.tip2019 <= balIn.blockNumber) =>
    balOut.balances =
      GetRewardBalancesRate([balIn EXCEPT !.voters = Dedup(balIn.voters)]).balances

\* w is listed twice beside v; V = 40 is split over the caps 2 and 1
C22_Witness ==
  /\ balPc = "out"
  /\ balIn.blockNumber = 1 /\ balIn.tip2019 = 1
  /\ balIn.totalReward = 100 /\ balIn.voterPercent = 40
  /\ balIn.voters = <<"w", "v", "w">>
  /\ balIn.voterCap["v"] = 1 /\ balIn.voterCap["w"] = 2
  /\ balOut.balances["w"] = 26 /\ balOut.balances["v"] = 13

\* C23: the entries of the returned balances sum to totalReward less the
\* truncation of the divisions only (less than one unit for each division: the
\* tier share, the voter total, one per voter and the foundation share), for
\* both tiers.
C23_SumIsTotal ==
  balPc = "out" =>
    /\ SumMap(balOut.balances) <= balIn.totalReward
    /\ balIn.totalReward - SumMap(balOut.balances) <
         3 + Cardinality(VoterSet(balIn.voters))

(***************************************************************************)
(* Claims about the randomize key, checked under Spec.                     *)
(***************************************************************************)
LogOps(op) == { i \in 1..Len(keyLog) : keyLog[i].op = op }

\* the calls that touched the key ran for non-decreasing blocks of one epoch
OneEpochInOrder ==
  \A i, j \in 1..Len(keyLog) :
    i < j => /\ keyLog[i].blk <= keyLog[j].blk
             /\ keyLog[i].blk \div cfg.Epoch = keyLog[j].blk \div cfg.Epoch

\* C24: over calls for non-decreasing blocks of one epoch the key is written
\* at most once, in the commit window only, is read for a reveal once and is
\* deleted after that reveal; nothing is written or read after the delete.
C24_KeyLifecycle ==
  OneEpochInOrder =>
    /\ Cardinality(LogOps("put")) <= 1
    /\ \A i \in LogOps("put") :
         /\ cfg.Secret <= keyLog[i].blk % cfg.Epoch
         /\ keyLog[i].blk % cfg.Epoch < cfg.Opening
    /\ Cardinality(LogOps("get")) <= 1
    /\ Cardinality(LogOps("delete")) <= 1
    /\ \A d \in LogOps("delete") :
         d = Len(keyLog) /\ d > 1 /\ keyLog[d - 1].op = "get"

\* C24, amended: over calls for non-decreasing blocks of one epoch the key is
\* written at most once, in the commit window only, before any read; it is
\* revealed (an opening transaction enters the pool) at most once and deleted
\* right after that reveal by the same call, and nothing is written or read
\* after the delete. A reveal that fails after its read leaves the key, and a
\* later call of the reveal window reads it again.
C24_KeyLifecycleRetry ==
  OneEpochInOrder =>
    /\ Cardinality(LogOps("put")) <= 1
    /\ \A i \in LogOps("put") :
         /\ cfg.Secret <= keyLog[i].blk % cfg.Epoch
         /\ keyLog[i].blk % cfg.Epoch < cfg.Opening
         /\ \A g \in LogOps("get") : i < g
    /\ \A g \in LogOps("get") :
         /\ cfg.Opening <= keyLog[g].blk % cfg.Epoch
         /\ keyLog[g].blk % cfg.Epoch <= cfg.Randomize
    /\ Cardinality({ i \in 1..Len(pool) : pool[i].kind = "opening" }) <= 1
    /\ Cardinality(LogOps("delete")) <= 1
    /\ \A d \in LogOps("delete") :
         /\ d = Len(keyLog) /\ d > 1
         /\ keyLog[d - 1] = [op |-> "get", blk |-> keyLog[d].blk]
         /\ \E i \in 1..Len(pool) : pool[i].kind = "opening" /\ pool[i].blk = keyLog[d].blk
         /\ dbKey = NoKey

\* the reveal of block 2 fails after reading the key; the call for block 3
\* reads it again, reveals and deletes
C24_Witness ==
  /\ cfg.Opening = 2
  /\ keyLog = << [op |-> "get", blk |-> 2], [op |-> "get", blk |-> 3],
                 [op |-> "delete", blk |-> 3] >>
  /\ dbKey = NoKey

\* C25: the key is epoch-scoped: a key written in the commit window of one
\* epoch is no longer stored when a call runs in the commit window of a later
\* epoch, so it does not keep that call from committing, and no key is read
\* for a reveal in a later epoch than the one it was written in.
C25_EpochScoped ==
  /\ \A p \in Callers :
       ( /\ call[p].pc = "secretCheck"
         /\ cfg.Secret <= checkNumber(p) /\ checkNumber(p) < cfg.Opening
         /\ Len(keyLog) > 0
         /\ keyLog[Len(keyLog)].op = "put"
         /\ keyLog[Len(keyLog)].blk \div cfg.Epoch < call[p].blk \div cfg.Epoch ) =>
         ~call[p].exist
  /\ \A g \in LogOps("get") :
       (g > 1 /\ keyLog[g - 1].op = "put") =>
         keyLog[g - 1].blk \div cfg.Epoch = keyLog[g].blk \div cfg.Epoch

\* C26: a call that commits a secret persists the new key first, before the
\* secret transaction is built and submitted; a call that reveals reads the
\* key before the opening transaction is built and deletes it afterwards.
C26_PersistFirst ==
  \A p \in Callers :
    /\ (call[p].secretBuilt \/ call[p].secretSub) => "put" \in call[p].keyOps
    /\ (call[p].openBuilt \/ call[p].openSub) => "get" \in call[p].keyOps
    /\ "delete" \in call[p].keyOps => call[p].openSub

\* C26, amended: a call that commits a secret generates the key, builds, signs
\* and submits the secret transaction, and persists the key only after the pool
\* has accepted the transaction; a call that reveals reads the key before the
\* opening transaction is built and deletes it after the pool has accepted it.
C26_PersistAfterSubmit ==
  \A p \in Callers :
    /\ "put" \in call[p].keyOps => (call[p].secretBuilt /\ call[p].secretSub)
    /\ call[p].pc \in {"secretAdd", "secretPut"} =>
         /\ call[p].secretBuilt /\ "put" \notin call[p].keyOps
         /\ dbKey = NoKey
    /\ (call[p].openBuilt \/ call[p].openSub) => "get" \in call[p].keyOps
    /\ "delete" \in call[p].keyOps => call[p].openSub
    /\ call[p].pc = "openDel" => (call[p].openSub /\ dbKey = call[p].key)

\* the secret transaction is in the pool and the key is not stored yet
C26_Witness ==
  \E p \in Callers :
    /\ call[p].pc = "secretPut" /\ call[p].secretSub
    /\ pool[Len(pool)] = SecretTx(call[p].blk, call[p].nonce, call[p].key)
    /\ dbKey = NoKey /\ keyLog = <<>>

\* what a call has done for the secret commit and for the reveal
DidSecret(p) == call[p].secretBuilt \/ call[p].secretSub \/ "put" \in call[p].keyOps
DidOpening(p) ==
  call[p].openBuilt \/ call[p].openSub \/ call[p].keyOps \cap {"get", "delete"} # {}

\* C27: with c = blockNumber mod Epoch, a call builds or submits a secret
\* transaction only when no key is stored and EpocBlockSecret <= c <
\* EpocBlockOpening, and an opening transaction only when a key is stored and
\* EpocBlockOpening <= c <= EpocBlockRandomize; at c = 0 and outside the two
\* windows it submits only the sign transaction and does not touch the store.
C27_Windows ==
  \A p \in Callers :
    LET c == call[p].blk % cfg.Epoch
        inSecret == cfg.Secret <= c /\ c < cfg.Opening
        inOpening == cfg.Opening <= c /\ c <= cfg.Randomize
    IN /\ DidSecret(p) =>
            /\ inSecret /\ c > 0 /\ ~call[p].exist
            /\ "put" \notin call[p].keyOps => dbKey = NoKey
       /\ DidOpening(p) =>
            /\ inOpening /\ c > 0 /\ call[p].exist
            /\ "delete" \notin call[p].keyOps => dbKey # NoKey
       /\ (c = 0 \/ (~inSecret /\ ~inOpening)) =>
            /\ ~DidSecret(p) /\ ~DidOpening(p) /\ call[p].keyOps \subseteq {"has"}
            /\ (call[p].pc = "ret" /\ call[p].ret = "nil" /\ call[p].signAdds > 0) =>
                 /\ call[p].signAdds = call[p].signFails + 1
                 /\ pool[Len(pool)] = SignTx(call[p].blk, call[p].nonce)

\* block 4 of an epoch of 4 blocks: c = 0, a key is stored, only the sign
\* transaction is submitted
C27_Witness ==
  \E p \in Callers :
    /\ call[p].blk = 4 /\ call[p].pc = "ret" /\ call[p].ret = "nil"
    /\ call[p].exist /\ dbKey = "k1"
    /\ pool = << SignTx(4, 0) >>

(***************************************************************************)
(* Claims about the builders and their readers, checked under SpecCodec.   *)
(***************************************************************************)
\* the number a big-endian byte string stands for
RECURSIVE BigEndianValue(_)
BigEndianValue(b) ==
  IF b = <<>> THEN 0
  ELSE 256 * BigEndianValue(SubSeq(b, 1, Len(b) - 1)) + b[Len(b)]

\* C28: the call data of CreateTxSign is the method selector, then a 32-byte
\* word holding the block number, then a 32-byte word holding the block hash;
\* the transaction carries no value and a gas limit of 200000; and the hash
\* GetRewardForCheckpoint reads from its trailing 32 bytes is the hash given
\* to CreateTxSign.
C28_SignData ==
  codec.op = "sign" /\ codec.pc \in {"mid", "out"} =>
    LET data == codec.tx.data
        sel == Len(HexSignMethod)
    IN /\ codec.tx.amount = 0
       /\ codec.tx.gasLimit = 200000
       /\ Len(data) = sel + 2 * WordLength
       /\ SubSeq(data, 1, sel) = HexSignMethod
       /\ SubSeq(data, sel + WordLength + 1, Len(data)) = codec.blockHash
       /\ BigEndianValue(SubSeq(data, sel + 1, sel + WordLength)) = codec.blockNumber
       /\ codec.pc = "out" => codec.blkHash = codec.blockHash

\* a hash without leading zeros was read back from the sign transaction of a
\* block number of several bytes
C28_Witness ==
  /\ codec.op = "sign"
  /\ codec.pc = "out"
  /\ codec.blockNumber > 256
  /\ codec.blockHash[1] /= 0
  /\ codec.blkHash = codec.blockHash

\* C29: when every index of the list is non-negative and has at most
\* M2ByteLength decimal digits, BuildValidatorFromM2 returns M2ByteLength
\* bytes per index, and the fixed-width decoding of them is the list.
C29_RotationRoundTrip ==
  /\ codec.op = "m2"
  /\ codec.pc \in {"mid", "out"}
  /\ \A k \in 1..Len(codec.listM2) :
        codec.listM2[k] >= 0 /\ Len(Sprintf(codec.listM2[k])) <= M2ByteLength
  => /\ Len(codec.validatorBytes) = M2ByteLength * Len(codec.listM2)
     /\ codec.pc = "out" => codec.validators = codec.listM2

\* a list of a full-width index and a one-digit index was encoded and decoded
C29_Witness ==
  /\ codec.op = "m2"
  /\ codec.pc = "out"
  /\ Len(codec.listM2) = 2
  /\ Len(Sprintf(codec.listM2[1])) = M2ByteLength
  /\ Len(Sprintf(codec.listM2[2])) = 1
  /\ codec.validators = codec.listM2

\* C30 as stated: with a key of a valid length, Decrypt of what Encrypt
\* returned is the text, for every text.
C30_RoundTrip ==
  codec.op = "crypt" /\ codec.pc = "out" /\ NewCipherOk(codec.key) =>
    codec.plain = codec.text

\* C30: with a key of a valid length, when Encrypt could draw its
\* initialization vector, Decrypt of what Encrypt returned is the text,
\* whatever the vector; when it could not, Encrypt returned the empty string
\* and so does Decrypt.
C30_RoundTripDrawn ==
  codec.op = "crypt" /\ codec.pc = "out" /\ NewCipherOk(codec.key) =>
    IF codec.draw.ok THEN codec.plain = codec.text
    ELSE codec.cryptoText = <<>> /\ codec.plain = <<>>

\* a text longer than one block came back under a vector that is not zero
C30_Witness ==
  /\ codec.op = "crypt"
  /\ codec.pc = "out"
  /\ NewCipherOk(codec.key)
  /\ codec.draw.ok
  /\ codec.draw.iv /= Zeros(BlockSize)
  /\ Len(codec.text) > BlockSize
  /\ codec.cryptoText /= <<>>
  /\ codec.plain = codec.text

\* whether a text reads as a decimal integer: digits after at most one sign
IsDecimalText(s) ==
  LET digit == {DecimalBytes[d] : d \in 1..Len(DecimalBytes)}
      sign == {SignBytes[k] : k \in 1..Len(SignBytes)}
      body == IF s /= <<>> /\ s[1] \in sign THEN Tail(s) ELSE s
  IN body /= <<>> /\ \A k \in 1..Len(body) : body[k] \in digit

\* the secrets of the run whose decryption reads as a decimal integer
DecimalSecrets == {k \in 1..Len(codec.decrypted) : IsDecimalText(codec.decrypted[k])}

\* C31: with a key of an invalid length Encrypt returns the empty string and
\* so does Decrypt; Decrypt returns the empty string for a word that holds
\* less than a vector; DecryptRandomizeFromSecretsAndOpening returns no error,
\* and its result is the value of the last secret whose decryption is a
\* decimal integer, or 0 when there is none.
C31_SilentDegrade ==
  /\ codec.op = "crypt" /\ codec.pc \in {"mid", "out"} /\ ~NewCipherOk(codec.key) =>
       /\ codec.cryptoText = <<>>
       /\ codec.pc = "out" => codec.plain = <<>>
  /\ codec.op = "rand" /\ codec.pc = "out" =>
       /\ codec.err = "nil"
       /\ \A k \in 1..Len(codec.secrets) :
            Len(DecodeString(TrimLeft(codec.secrets[k]))) < BlockSize =>
              codec.decrypted[k] = <<>>
       /\ codec.random =
            IF DecimalSecrets = {} THEN 0
            ELSE Atoi(codec.decrypted[CHOOSE k \in DecimalSecrets :
                                        \A j \in DecimalSecrets : j <= k]).val

\* of two secrets the first decrypted to a number that is not zero and the
\* second, which did not decrypt to a number, was skipped
C31_Witness ==
  /\ codec.op = "rand"
  /\ codec.pc = "out"
  /\ Len(codec.secrets) = 2
  /\ DecimalSecrets = {1}
  /\ codec.random /= 0
  /\ codec.random = Atoi(codec.decrypted[1]).val

(***************************************************************************)
(* Claims about GenM2FromRandomize among other users of the generator,     *)
(* checked under SpecM2Race.                                               *)
(***************************************************************************)
\* C33: two invocations of GenM2FromRandomize with the same sum of secrets
\* and the same number of validators return the same order, also when other
\* goroutines seed and draw from the generator while they run.
C33_RaceFree ==
  (m2Out[1].done /\ m2Out[2].done
     /\ m2Out[1].lenSigners = m2Out[2].lenSigners
     /\ m2Out[1].total = m2Out[2].total) =>
    m2Out[2].out = m2Out[1].out

\* C34: for two validators or more the order GenM2FromRandomize returns has
\* no fixed point, whatever the generator gave at each draw; for two
\* validators it is <<1, 0>>.
C34_NoFixedPoint ==
  \A r \in M2Runs :
    m2Out[r].done /\ m2Out[r].lenSigners >= 2 =>
      /\ \A k \in 1..Len(m2Out[r].out) : m2Out[r].out[k] /= k - 1
      /\ m2Out[r].lenSigners = 2 => m2Out[r].out = <<1, 0>>

\* an order of two and an order of three validators were returned
C34_Witness ==
  /\ m2Out[1].done /\ m2Out[1].lenSigners = 2 /\ m2Out[1].out = <<1, 0>>
  /\ m2Out[2].done /\ m2Out[2].lenSigners = 3 /\ m2Out[2].out = <<2, 0, 1>>

(***************************************************************************)
(* More claims about GetRewardBalancesRate, checked under SpecBalances.    *)
(***************************************************************************)
\* C35: before the upgrade block the cap of a voter is added to the total cap
\* once for every time the voter is listed, and the voter is credited one
\* share floor(V * cap / totalCap); no entry of the balances is larger than
\* with the repetitions removed from the list.
C35_RepeatedVoterBefore ==
  (balPc = "out" /\ balIn.blockNumber < balIn.tip2019) =>
    LET V == (balIn.totalReward * balIn.voterPercent) \div 100
        totalCap == SeqSum([k \in 1..Len(balIn.voters) |-> balIn.voterCap[balIn.voters[k]]])
        once == GetRewardBalancesRate([balIn EXCEPT !.voters = Dedup(balIn.voters)])
    IN /\ \A a \in VoterSet(balIn.voters) :
            balIn.voterCap[a] > 0 =>
              balOut.credits[a] = (V * balIn.voterCap[a]) \div totalCap
       /\ DOMAIN balOut.balances = DOMAIN once.balances
       /\ \A a \in DOMAIN balOut.balances : balOut.balances[a] <= once.balances[a]

\* before the upgrade block w is listed twice beside v: its cap 2 counts twice
\* in the total cap 5, and V = 40 pays 16 and 8 instead of 26 and 13
C35_Witness ==
  /\ balPc = "out"
  /\ balIn.blockNumber = 0 /\ balIn.tip2019 = 1
  /\ balIn.totalReward = 100 /\ balIn.voterPercent = 40
  /\ balIn.voters = <<"w", "v", "w">>
  /\ balIn.voterCap["v"] = 1 /\ balIn.voterCap["w"] = 2
  /\ balOut.balances["w"] = 16 /\ balOut.balances["v"] = 8

(***************************************************************************)
(* Claims about the maps the reward functions range over, checked under    *)
(* SpecOrder.                                                              *)
(***************************************************************************)
\* C36: whatever the order in which addrSigners, signers and voterCaps are
\* ranged over, GetRewardForCheckpoint returns the same counts and counter,
\* CalculateRewardForSigner the same rewards, and GetRewardBalancesRate the
\* same balances, also with the masternode or the foundation among the voters.
C36_OrderFree ==
  [][ /\ (rwPc = "build" /\ rwPc' = "tallied") =>
           \A pri \in RangeOrders(Addrs) :
             TallyIn(rwCfg, WalkBack(chainTx, WalkLast(rwCfg), WalkFirst(rwCfg), EmptyMap),
                     startBlockNumber(rwCfg),
                     [signers |-> EmptyMap, total |-> totalSigner], pri)
               = [signers |-> signers', total |-> totalSigner']
      /\ (rwPc = "tallied" /\ rwPc' = "rewarded" /\ totalSigner > 0) =>
           \A order \in RangeOrders(DOMAIN signers) :
             LET st == RewardSignersIn(calc'.chainReward, totalSigner,
                         [signers |-> signers, result |-> EmptyMap, divs |-> 0], order)
             IN st.result = calc'.result /\ st.signers = signers'
      /\ (balPc = "in" /\ balPc' = "out") =>
           LET V == (balIn.totalReward * balIn.voterPercent) \div 100
               acc == CollectCaps(balIn, 1, [caps |-> EmptyMap, total |-> 0])
               b1 == (TierCreditAddr(balIn) :> TierReward(balIn.stakeCap, balIn.totalReward))
           IN (Len(balIn.voters) > 0 /\ acc.total > 0) =>
                \A order \in RangeOrders(DOMAIN acc.caps) :
                  SetFoundation(PayVotersIn(b1, V, acc, order), balIn.foundationWalletAddr,
                                (balIn.totalReward * balIn.foundationPercent) \div 100)
                    = balOut'.balances
    ]_vars

\* the masternode and the foundation wallet are voters beside v, all three
\* with a cap, and the voters were paid
C36_Witness ==
  /\ balPc = "out"
  /\ balIn.voters = <<"m", "f", "v">>
  /\ balIn.voterCap["m"] = 1 /\ balIn.voterCap["f"] = 1 /\ balIn.voterCap["v"] = 1
  /\ balIn.totalReward = 100 /\ balIn.voterPercent = 40
  /\ balOut.credits["m"] > 0 /\ balOut.credits["v"] > 0

(***************************************************************************)
(* Claims about the commit and the reveal of a secret, checked under       *)
(* SpecCodec.                                                              *)
(***************************************************************************)
\* C37 as stated: the secret of BuildTxSecretRandomize lies in [0, E), and
\* DecryptRandomizeFromSecretsAndOpening returns it from the secret word and
\* the key of the opening transaction, for every epoch length E >= 1.
C37_CommitReveal ==
  codec.op = "commit" /\ codec.pc /= "in" =>
    /\ codec.secretNumb \in 0..(codec.epocNumber - 1)
    /\ codec.pc = "out" => codec.err = "nil" /\ codec.random = codec.secretNumb

\* C37: the secret of BuildTxSecretRandomize lies in [0, E); when the epoch
\* length is at most 10000 (10^8 in the program), so that the encrypted secret
\* fits its word, and Encrypt could draw its vector,
\* DecryptRandomizeFromSecretsAndOpening returns the secret from the secret
\* word and the key of the opening transaction.
C37_CommitRevealFits ==
  codec.op = "commit" /\ codec.pc /= "in" =>
    /\ codec.secretNumb \in 0..(codec.epocNumber - 1)
    /\ (codec.pc = "out" /\ codec.draw.ok /\ codec.epocNumber <= 10000) =>
         codec.err = "nil" /\ codec.random = codec.secretNumb

\* a secret of three digits that is not zero was committed and revealed
C37_Witness ==
  /\ codec.op = "commit"
  /\ codec.pc = "out"
  /\ codec.draw.ok
  /\ codec.epocNumber = 900
  /\ codec.secretNumb > 99
  /\ codec.random = codec.secretNumb

(***************************************************************************)
(* More claims about the randomize key, checked under Spec.                *)
(***************************************************************************)
\* C38: the store changes only by a key being put after the pool accepted the
\* secret transaction made with it, or by the stored key being deleted after
\* the pool accepted the opening transaction that carries it; a call that
\* returns an error leaves the store as it was: without a key when the commit
\* failed, with the key when the reading, signing or submission of the reveal
\* failed.
C38_FailureKeepsStore ==
  [][ /\ dbKey' /= dbKey =>
           \E p \in Callers :
             \/ /\ call[p].pc = "secretPut" /\ call[p].secretSub
                /\ dbKey = NoKey /\ dbKey' = call[p].key
                /\ \E i \in 1..Len(pool) :
                     pool[i] = SecretTx(call[p].blk, call[p].nonce, call[p].key)
             \/ /\ call[p].pc = "openDel" /\ call[p].openSub
                /\ dbKey = call[p].key /\ dbKey' = NoKey
                /\ \E i \in 1..Len(pool) :
                     pool[i] = OpeningTx(call[p].blk, call[p].nonce, dbKey)
      /\ \A p \in Callers :
           (call[p].pc /= "ret" /\ call'[p].pc = "ret" /\ call'[p].ret /= "nil") =>
             /\ dbKey' = dbKey
             /\ call'[p].secretBuilt => dbKey' = NoKey
             /\ "get" \in call'[p].keyOps => dbKey' /= NoKey
    ]_vars

\* the pool refused an opening transaction and the key it carries is still stored
C38_Witness ==
  \E p \in Callers :
    /\ call[p].pc = "ret"
    /\ call[p].ret \in PoolErrs
    /\ call[p].openBuilt /\ ~call[p].openSub
    /\ dbKey = call[p].key

(***************************************************************************)
(* Claims about the loops of GetRewardForCheckpoint, checked under         *)
(* SpecWalk.                                                               *)
(***************************************************************************)
\* the headers the first loop asked for
LoopFetched ==
  IF rwPc = "walk" THEN walk.fetched
  ELSE SubSeq(walk.fetched, 1, Len(walk.fetched) - 1)

\* C39: for every header number and every rCheckpoint >= 1 the first loop
\* asks for at most 2r - 1 headers, numbered N - 1, N - 2, ... in uint64
\* arithmetic and none below N - 2r + 1, and the header asked for after it is
\* the one numbered N - 2r.
C39_WalkBounded ==
  rwPc \in {"walk", "tally", "done"} =>
    /\ Len(LoopFetched) <= (2 * rwCfg.r) - 1
    /\ \A k \in 1..Len(LoopFetched) : LoopFetched[k] = WrapU(rwCfg.number - k)
    /\ rwPc \in {"tally", "done"} =>
         walk.fetched[Len(walk.fetched)] = WrapU(rwCfg.number - (2 * rwCfg.r))

(***************************************************************************)
(* Claims about one epoch of calls, checked under SpecEpoch.               *)
(***************************************************************************)
\* every block of the epoch was processed and the last call returned
EpochOver == ncalls = 0 /\ call[1].pc = "idle"

\* positions in the pool of the transactions of one kind
PoolIndexes(kind) == { i \in 1..Len(pool) : pool[i].kind = kind }

\* one secret transaction, after it one opening transaction with the same
\* key, and no key left in the store
CycleDone ==
  /\ Cardinality(PoolIndexes("secret")) = 1
  /\ Cardinality(PoolIndexes("opening")) = 1
  /\ \A i \in PoolIndexes("secret"), j \in PoolIndexes("opening") :
       /\ i < j
       /\ pool[i].blk < pool[j].blk
       /\ pool[i].key = pool[j].key
       /\ pool[i].key \in Keys
  /\ dbKey = NoKey

\* no signature, no submission and no read of the stored key failed
CallsOk ==
  \A k \in 1..Len(EpochReturns) : EpochReturns[k].op = "nil"

====
